---- MODULE Spec2Model ----
(***************************************************************************)
(* Model of the Vex TypeScript SDK delivery layer: the AsyncTransport       *)
(* buffer with batched flush / retry / requeue (src/src/transport/async.ts),*)
(* the SyncTransport verify retry loop (sync.ts), and the orchestrator's    *)
(* trace / processEvent / periodic timer / close (src/src/vex.ts).          *)
(*                                                                         *)
(* JavaScript runs each handler to its next `await` without interleaving,  *)
(* so one action is one run-to-suspension segment of the code.             *)
(***************************************************************************)
EXTENDS Integers, Sequences, FiniteSets, TLC

\* ------------------------------------------------------------------ bounds
MaxBufferSize == 2       \* config.maxBufferSize used by the model
MaxEvents == 3           \* number of events (executions) ever built
MaxFlushes == 2          \* flush() invocations that may be in flight at once
MaxCloseCalls == 2       \* Vex.close() calls ever made
MaxWindow == 2           \* largest config.conversationWindowSize tried
MaxCalls == 2            \* Session.trace calls that may overlap in time
MaxKeyBody == 11         \* longest API key body tried (without padding)
MaxFieldLen == 3         \* longest mapping key tried by the casing functions
MaxEnqueues == 4         \* direct transport.enqueue calls ever made
MaxSteps == 2            \* ctx.step() calls on one Trace Context
MaxBuilds == 2           \* ctx.buildEvent() calls on one Trace Context
MaxClock == 1            \* milliseconds that pass while the context lives

\* ------------------------------------------------------- program constants
maxRetries == 3          \* AsyncTransport.flush
syncMaxRetries == 3      \* SyncTransport.verify
MinKeyLength == 10       \* Vex constructor
WarnEvery == 100         \* AsyncTransport.enqueue
DefaultSyncTimeoutMs == 30000    \* SyncTransport constructor
DefaultConfigTimeoutMs == 10000  \* config DEFAULTS.timeoutMs
CorrectionFactor == 3    \* correction timeout = 3 * base timeout

\* ------------------------------------------------------------- value sets
Modes == {"sync", "async"}
Undefined == "undefined"
Null == "null"
Outputs == {"world", "other"}
\* values a callback can record that have no JSON text: an object that
\* contains itself, and a BigInt
CircularOutput == "circular"
BigIntOutput == "bigint"
\* what the callback of Vex.trace records: a string, or one of these
RecordedOutputs == {"world", CircularOutput, BigIntOutput}
\* what fetch() can do for one attempt: answer with a status, or throw
\* (network failure, or the AbortController timeout firing)
Statuses == {200, 301, 499, 500}
FetchOutcomes == [kind : {"status"}, status : Statuses]
                   \cup [kind : {"throw"}, status : {0}]

\* the JSON body of a 2xx answer of /v1/verify, in wire (snake_case) keys.
\* "undefined" is an absent key, "null" a JSON null; in the id-valued field
\* 0 stands for an absent key and 99 for an id chosen by the server.
\* the verdict fields vary freely; the detail fields are either all absent
\* (or null) or all present
RawVerdicts ==
    [execution_id : {0, 99},
     confidence : {Undefined, Null, "0.1"},
     action : {Undefined, "pass", "flag", "block", "allow"},
     output : {Undefined, "fixed"}]
RawDetails ==
    {[correction_attempts |-> Null, checks |-> Undefined,
      corrected |-> Undefined, original_output |-> Null],
     [correction_attempts |-> "attempts", checks |-> "checks",
      corrected |-> "true", original_output |-> "orig"]}
\* the body `{}`
EmptyBody ==
    [execution_id |-> 0, confidence |-> Undefined, action |-> Undefined,
     output |-> Undefined, correction_attempts |-> Undefined,
     checks |-> Undefined, corrected |-> Undefined,
     original_output |-> Undefined]
\* the body whose fields are all null (0: no id)
NullBody ==
    [execution_id |-> 0, confidence |-> Null, action |-> Null,
     output |-> Null, correction_attempts |-> Null, checks |-> Null,
     corrected |-> Null, original_output |-> Null]
RawBodies ==
    {[execution_id |-> v.execution_id, confidence |-> v.confidence,
      action |-> v.action, output |-> v.output,
      correction_attempts |-> d.correction_attempts, checks |-> d.checks,
      corrected |-> d.corrected, original_output |-> d.original_output] :
        v \in RawVerdicts, d \in RawDetails} \cup {EmptyBody, NullBody}
\* what one attempt of verify() can meet: while it builds the request,
FetchFailures == {"NetworkError", "AbortError"}  \* fetch() rejects / aborts
\* while it reads the body of a 2xx answer,
JsonOutcomes ==
    {"ok",                             \* the body is a JSON object
     "ok-null",                        \* the body is JSON null
     "ok-json-fails"}                  \* response.json() rejects
\* and while it reads the body of a non-2xx answer
TextOutcomes ==
    {"status",                         \* the body text is readable
     "status-text-fails"}              \* response.text() rejects

VARIABLES
    mode,            \* config.mode
    closed,          \* Vex.closed
    flushTimer,      \* Vex.flushTimer !== null (interval armed)
    buffer,          \* AsyncTransport.buffer
    droppedCount,    \* AsyncTransport.droppedCount
    flushes,         \* in-flight flush() invocations (their locals)
    nextId,          \* number of executionIds generated so far
    tpc,             \* position of the caller's trace() call
    ctxOutput,       \* TraceContext.output of the current trace
    event,           \* the event built by ctx.buildEvent()
    attempt,         \* SyncTransport.verify: loop variable `attempt`
    lastError,       \* SyncTransport.verify: local `lastError`
    attemptFailure,  \* history: what verify's latest attempt raised
    result,          \* what trace() resolved with
    traceError,      \* what trace() rejected with
    verifyResult,    \* how SyncTransport.verify settled (history)
    delivered,       \* history: ids of events answered with 2xx
    clientDropped,   \* history: ids of events answered with a non-2xx < 500
    requeued,        \* history: ids put back by requeue, not yet re-snapshot
    lastFlush,       \* history: how the last finished flush() ended
    flushRejected,   \* history: some flush() promise rejected
    warning,         \* history: what the current trace() logged (console.warn)
    enqueueWarned,   \* history: per event dropped by enqueue, whether it warned
    closeCalls,      \* history: number of Vex.close() calls made
    tickedClosed,    \* history: the interval callback ran after close()
    windowSize,      \* config.conversationWindowSize
    seq,             \* Session.seq
    history,         \* Session.history
    calls,           \* in-flight Session.trace calls (their locals)
    stamped,         \* history: sequenceNumber of each event handed over
    started,         \* history: number of Session.trace calls made
    overlapped,      \* history: a call began while another was in flight
    failed,          \* history: some Session.trace call rejected
    ended,           \* history: how the call that the last step ended, ended
    apiKey,          \* input: opts.apiKey of the Vex constructor
    thresholdInput,  \* input: opts.config.threshold (partial)
    ctor,            \* how `new Vex(opts)` ended
    transports,      \* the transports the constructor created
    threshold,       \* config.threshold of the constructed Vex
    resolved,        \* how a direct resolveConfig(input) call ended
    caseInput,       \* input: the value given to the first conversion
    caseDir,         \* input: which conversion runs first
    caseWire,        \* the result of the first conversion
    caseBack,        \* the result of converting caseWire back
    casePc,          \* how many conversions have run
    syncInput,       \* input: how the SyncTransport is built, its options
    timeoutMs,       \* SyncTransport.timeoutMs
    correctionTimeoutMs, \* SyncTransport.correctionTimeoutMs
    verifyOpts,      \* input: the VerifyOptions of the verify call
    eventMetadata,   \* input: metadata of the event handed to verify
    vpc,             \* verify call: "idle", at `await fetch`, "json" or "text"
                     \* (body awaited), "delay", "settled" or "thrown"
    verifyTimeout,   \* verify: local `timeout`
    timers,          \* history: the abort timer armed for each attempt
    bodyMetadata,    \* metadata member of the body sent by verify
    healthy,         \* environment: the ingest endpoint answers 2xx for good
    steps,           \* TraceContext: contents of the array this.steps
    metadata,        \* TraceContext: contents of the object this.metadata
    stepsCopy,       \* the array the last getSteps() returned, as it is now
    built,           \* the events buildEvent() returned, in call order
    stepCalls,       \* history: the step() calls made, in call order
    cleanSinceBuild, \* history: no mutator ran since the last buildEvent()
    clock            \* environment: milliseconds since the context was made

vars == <<mode, closed, flushTimer, buffer, droppedCount, flushes, nextId, tpc,
          ctxOutput, event, attempt, lastError, attemptFailure, result,
          traceError, verifyResult, delivered, clientDropped, requeued,
          lastFlush, flushRejected, warning, enqueueWarned, closeCalls,
          tickedClosed, windowSize, seq, history, calls, stamped, started,
          overlapped, failed, ended, apiKey, thresholdInput, ctor, transports,
          threshold, resolved, caseInput, caseDir, caseWire, caseBack, casePc,
          syncInput, timeoutMs, correctionTimeoutMs, verifyOpts, eventMetadata,
          vpc, verifyTimeout, timers, bodyMetadata, healthy, steps,
          metadata, stepsCopy, built, stepCalls, cleanSinceBuild, clock>>

asyncVars == <<buffer, droppedCount, flushes, delivered, clientDropped,
               requeued, lastFlush, flushRejected>>
traceVars == <<nextId, tpc, ctxOutput, event, attempt, lastError,
               attemptFailure, result, traceError, verifyResult, warning,
               enqueueWarned>>
vexVars == <<mode, closed, flushTimer, closeCalls, tickedClosed>>
sessionVars == <<windowSize, seq, history, calls, stamped, started,
                 overlapped, failed, ended>>
\* what the actions of the orchestrator and the transports leave alone
configVars == <<apiKey, thresholdInput, ctor, transports, threshold,
                resolved>>
caseVars == <<caseInput, caseDir, caseWire, caseBack, casePc>>
requestVars == <<syncInput, timeoutMs, correctionTimeoutMs, verifyOpts,
                 eventMetadata, vpc, verifyTimeout, timers, bodyMetadata>>
envVars == <<healthy>>
contextVars == <<steps, metadata, stepsCopy, built, stepCalls,
                 cleanSinceBuild, clock>>
nonContextVars == <<sessionVars, configVars, caseVars, requestVars, envVars>>
otherVars == <<nonContextVars, contextVars>>

\* ------------------------------------------------------------ helpers
Min(a, b) == IF a < b THEN a ELSE b
Max(a, b) == IF a > b THEN a ELSE b
Ids(s) == {s[i].executionId : i \in 1..Len(s)}
\* Array.prototype.slice(0, n) for n >= 0
Slice0(s, n) == SubSeq(s, 1, Min(n, Len(s)))

NoEvent == [executionId |-> 0, output |-> Undefined]
NoResult == [output |-> Undefined, confidence |-> Null, action |-> "none",
             corrections |-> Null, executionId |-> 0, verification |-> Null,
             corrected |-> "false", originalOutput |-> Null]
NoResponse == [executionId |-> 0, confidence |-> Undefined,
               action |-> Undefined, output |-> Undefined,
               correctionAttempts |-> Null, checks |-> Undefined,
               corrected |-> Undefined, originalOutput |-> Null]
NoTraceError == [name |-> "none", result |-> NoResult]
NoVerify == [kind |-> "none", response |-> NoResponse, error |-> "none"]
NoError == [name |-> "none", attempt |-> 0]
NoFlush == [pc |-> "idle", batch |-> <<>>, attempt |-> 0]
FlushSlots == 1..MaxFlushes
NoCall == [pc |-> "idle", currentSeq |-> 0, snapshot |-> <<>>,
           output |-> Undefined]
CallSlots == 1..MaxCalls

\* response.ok
ResponseOk(status) == status >= 200 /\ status <= 299

\* utils.ts toSnakeCase: the recursion over the members of an object has
\* no guard against a cycle and ends in a RangeError (stack exhausted)
ToSnakeCaseThrows(v) == v = CircularOutput

\* JSON.stringify throws a TypeError for a BigInt
StringifyThrows(v) == v = BigIntOutput

\* ------------------------------------------------- AsyncTransport.enqueue
\* enqueue with the capacity test off by one (`>` for `>=`)
EnqueueBuffer_OffByOne(buf, e) ==
    IF Len(buf) > MaxBufferSize THEN buf ELSE Append(buf, e)

\* enqueue(event): the new buffer
EnqueueBuffer(buf, e) ==
    IF Len(buf) >= MaxBufferSize THEN buf ELSE Append(buf, e)

\* enqueue(event): the new drop counter
EnqueueDropped(buf, dc) ==
    IF Len(buf) >= MaxBufferSize THEN dc + 1 ELSE dc

\* line 32: `if (this.droppedCount % 100 === 1)`, on the count just
\* incremented
EnqueueWarns(dc) == dc % WarnEvery = 1

\* enqueue(event): one more entry per dropped event, TRUE when console.warn
\* was called for it
EnqueueWarned(buf, dc, w) ==
    IF Len(buf) >= MaxBufferSize
    THEN Append(w, EnqueueWarns(EnqueueDropped(buf, dc)))
    ELSE w

\* ---------------------------------------- AsyncTransport.flush (requeue)
\* requeue that puts the whole batch back, whatever room is left
EventsToRetry_All(batch, buf) == batch

\* lines 78-79: available, eventsToRetry
EventsToRetry(batch, buf) ==
    Slice0(batch, Max(0, MaxBufferSize - Len(buf)))

\* requeue that puts the failed batch behind the newer events
RequeueBuffer_AtTail(batch, buf) == buf \o EventsToRetry(batch, buf)

\* line 85: this.buffer = [...eventsToRetry, ...this.buffer]
RequeueBuffer(batch, buf) == EventsToRetry(batch, buf) \o buf

\* requeue that does not count the events it discards
RequeueDropped_None(batch, buf, dc) == dc

\* lines 80-84: the drop counter after the requeue
RequeueDropped(batch, buf, dc) ==
    dc + (Len(batch) - Len(EventsToRetry(batch, buf)))

\* a `??` that only replaces undefined
Coalesce_OnlyUndefined(x, d) == IF x = Undefined THEN d ELSE x

\* the `??` operator on string-valued fields
Coalesce(x, d) == IF x \in {Undefined, Null} THEN d ELSE x

\* ---------------------------------- SyncTransport: options and request
\* an optional number: a property that is absent, or a number
NoNumber == [set |-> FALSE, v |-> 0]
Given(n) == [set |-> TRUE, v |-> n]
\* `x ?? d` on an optional number
CoalesceNum(x, d) == IF x.set THEN x.v ELSE d

TimeoutValues == {1000, 5000}
OptionalTimeouts == {NoNumber} \cup {Given(n) : n \in TimeoutValues}
ConfigTimeouts == {DefaultConfigTimeoutMs, 1000}

\* vex.ts lines 43-51: the options the Vex constructor builds the
\* SyncTransport with
VexSyncOptions(cfgTimeoutMs) ==
    [timeoutMs |-> Given(cfgTimeoutMs),
     correctionTimeoutMs |-> Given(cfgTimeoutMs * CorrectionFactor)]

\* the transport is built by the Vex constructor, or directly by its owner
SyncInputs ==
    {[via |-> "vex", configTimeoutMs |-> t, opts |-> VexSyncOptions(t)] :
        t \in ConfigTimeouts}
    \cup
    {[via |-> "direct", configTimeoutMs |-> 0,
      opts |-> [timeoutMs |-> a, correctionTimeoutMs |-> b]] :
        a \in OptionalTimeouts, b \in OptionalTimeouts}
NoSyncInput ==
    [via |-> "none", configTimeoutMs |-> 0,
     opts |-> [timeoutMs |-> NoNumber, correctionTimeoutMs |-> NoNumber]]

\* sync.ts line 39: `this.timeoutMs = opts.timeoutMs ?? 30_000`
SyncTimeoutMs(opts) == CoalesceNum(opts.timeoutMs, DefaultSyncTimeoutMs)

\* sync.ts line 40:
\* `this.correctionTimeoutMs = opts.correctionTimeoutMs ?? this.timeoutMs * 3`
SyncCorrectionTimeoutMs(opts) ==
    CoalesceNum(opts.correctionTimeoutMs,
                SyncTimeoutMs(opts) * CorrectionFactor)

\* VerifyOptions (sync.ts lines 12-16); given = FALSE is verify(event)
\* without its second argument. Thresholds are held in hundredths.
NoThresholds == [set |-> FALSE, pass |-> 0, flag |-> 0, block |-> 0]
ThresholdOptions ==
    {[set |-> TRUE, pass |-> 80, flag |-> 50, block |-> 30],
     [set |-> TRUE, pass |-> 90, flag |-> 60, block |-> 10],
     [set |-> TRUE, pass |-> 90, flag |-> 20, block |-> 20]}
CorrectionModes == {"none", "auto", "llm"}
TransparencyModes == {"opaque", "transparent"}
NoVerifyOptions ==
    [given |-> FALSE, thresholds |-> NoThresholds, correction |-> Undefined,
     transparency |-> Undefined]
\* what the owner of a SyncTransport may pass
DirectVerifyOptions ==
    {NoVerifyOptions} \cup
    {[given |-> TRUE, thresholds |-> th, correction |-> c,
      transparency |-> tr] :
        th \in ThresholdOptions \cup {NoThresholds},
        c \in CorrectionModes \cup {Undefined},
        tr \in TransparencyModes \cup {Undefined}}
\* config.ts lines 37-43: a constructed Vex holds only thresholds with
\* block < flag < pass (any other set makes the constructor throw)
ConfigThresholds ==
    {th \in ThresholdOptions : th.block < th.flag /\ th.flag < th.pass}
\* vex.ts lines 105-109: what processEvent passes, all three from the config
VexVerifyOptions ==
    {[given |-> TRUE, thresholds |-> th, correction |-> c,
      transparency |-> tr] :
        th \in ConfigThresholds, c \in {"none", "auto"},
        tr \in TransparencyModes}

\* one member of a metadata object: absent, a value of the user, or the
\* threshold pair that verify writes
Absent == [t |-> "absent", s |-> "", pass |-> 0, flag |-> 0]
Text(s) == [t |-> "text", s |-> s, pass |-> 0, flag |-> 0]
ThresholdPair(p, f) == [t |-> "pair", s |-> "", pass |-> p, flag |-> f]
\* the keys verify writes and one it never writes; camelToSnake leaves
\* each of them as it is (no upper-case letter)
MetaKeys == {"thresholds", "correction", "transparency", "model"}
EmptyMetadata == [k \in MetaKeys |-> Absent]
\* event.metadata after toSnakeCase (line 48): an object, or, for a caller
\* outside the type, undefined or a string
ObjectMetadatas ==
    {[kind |-> "object", entries |-> e] :
        e \in [MetaKeys -> {Absent, Text("user")}]}
EventMetadatas ==
    ObjectMetadatas \cup
    {[kind |-> k, entries |-> EmptyMetadata] : k \in {"undefined", "string"}}

\* sync.ts lines 49-51: the metadata object the options are merged into
PayloadMetadata(md) ==
    IF md.kind # "object" THEN EmptyMetadata ELSE md.entries

\* sync.ts lines 53-58: `if (opts?.thresholds) metadata.thresholds = {...}`
MergeThresholds(meta, opts) ==
    IF opts.given /\ opts.thresholds.set
    THEN [meta EXCEPT !["thresholds"] =
              ThresholdPair(opts.thresholds.pass, opts.thresholds.flag)]
    ELSE meta

\* truthiness of an optional string
Truthy(x) == x \notin {Undefined, Null, ""}

\* sync.ts line 59:
\* `const useCorrection = opts?.correction && opts.correction !== 'none'`
UseCorrection(opts) ==
    opts.given /\ Truthy(opts.correction) /\ opts.correction # "none"

\* merge that writes the correction keys whenever a mode is given
MergeCorrection_AlsoNone(meta, opts) ==
    IF opts.given /\ Truthy(opts.correction)
    THEN [meta EXCEPT !["correction"] = Text(opts.correction),
                      !["transparency"] =
                          Text(Coalesce(opts.transparency, "opaque"))]
    ELSE meta

\* sync.ts lines 60-63
MergeCorrection(meta, opts) ==
    IF UseCorrection(opts)
    THEN [meta EXCEPT !["correction"] = Text(opts.correction),
                      !["transparency"] =
                          Text(Coalesce(opts.transparency, "opaque"))]
    ELSE meta

\* sync.ts lines 48-63: body.metadata
RequestMetadata(md, opts) ==
    MergeCorrection(MergeThresholds(PayloadMetadata(md), opts), opts)

\* timeout selection that always takes the base timeout
SelectTimeout_AlwaysBase(opts, ct, bt) == bt

\* sync.ts line 65:
\* `const timeout = useCorrection ? this.correctionTimeoutMs : this.timeoutMs`
SelectTimeout(opts, ct, bt) == IF UseCorrection(opts) THEN ct ELSE bt

\* no verify call under study
RequestIdle ==
    /\ syncInput = NoSyncInput
    /\ timeoutMs = 0
    /\ correctionTimeoutMs = 0
    /\ verifyOpts = NoVerifyOptions
    /\ eventMetadata = [kind |-> "undefined", entries |-> EmptyMetadata]
    /\ vpc = "done"
    /\ verifyTimeout = 0
    /\ timers = <<>>
    /\ bodyMetadata = EmptyMetadata

\* ------------------------------------------- TraceContext (trace.ts)
\* Arrays and objects are held by reference. The context creates one steps
\* array and one metadata object (lines 136-137) and never replaces them;
\* a value that holds the reference reads their present contents.
ThisSteps == "this.steps"
ThisMetadata == "this.metadata"
\* a new empty array / object that nothing else refers to
FreshArray == "[]"
FreshObject == "{}"
ArrayAt(ref, ctxSteps) == IF ref = ThisSteps THEN ctxSteps ELSE <<>>
NoMetadata == [k \in {"model"} |-> Undefined]
ObjectAt(ref, ctxMetadata) ==
    IF ref = ThisMetadata THEN ctxMetadata ELSE NoMetadata
StepTypes == {"llm", "tool"}
StepNames == {"search"}
ContextKeys == DOMAIN NoMetadata
ContextValues == {"gpt-4"}

\* line 185: stepName: `${opts.type}:${opts.name}`
StepName(type, name) == type \o ":" \o name

\* models.ts lines 57-69, the name of the record (the input, output and
\* timestamp members of a StepRecord enter no property checked here)
createStepRecord(stepName) == [stepName |-> stepName]

\* lines 183-190: this.steps.push(createStepRecord({...}))
StepsAfterStep(arr, type, name) ==
    Append(arr, createStepRecord(StepName(type, name)))

\* line 173: this.metadata[key] = value
MetadataAfterSet(obj, key, value) == [obj EXCEPT ![key] = value]

\* line 206: `return [...this.steps];` the contents of the new array
getSteps(arr) == [i \in 1..Len(arr) |-> arr[i]]

\* randomUUID(): a value no earlier call returned; `drawn` counts the calls
randomUUID(drawn) == drawn + 1

\* models.ts lines 88-108 (executionId 0: opts.executionId absent)
createExecutionEvent(opts, uuid, now) ==
    [executionId |-> IF opts.executionId = 0 THEN uuid
                     ELSE opts.executionId,
     output |-> opts.output,
     steps |-> Coalesce(opts.steps, FreshArray),
     metadata |-> Coalesce(opts.metadata, FreshObject),
     timestamp |-> now,
     latencyMs |-> opts.latencyMs]

\* trace.ts lines 221-239: buildEvent() passes no executionId and no
\* timestamp, and hands over this.steps and this.metadata themselves;
\* startTime is 0 on the model's clock
TraceContextBuildEvent(out, drawn, now) ==
    createExecutionEvent(
        [executionId |-> 0, output |-> out, steps |-> ThisSteps,
         metadata |-> ThisMetadata, latencyMs |-> now - 0],
        randomUUID(drawn), now)

\* a new TraceContext (lines 136-137, 148) that built nothing yet
ContextInit ==
    /\ steps = <<>>
    /\ metadata = NoMetadata
    /\ stepsCopy = [taken |-> FALSE, v |-> <<>>]
    /\ built = <<>>
    /\ stepCalls = <<>>
    /\ cleanSinceBuild = FALSE
    /\ clock = 0

\* ------------------------------------------------------------------ Init
VexFieldsInit ==
    /\ ContextInit
    /\ closed = FALSE
    /\ buffer = <<>>
    /\ droppedCount = 0
    /\ flushes = [f \in FlushSlots |-> NoFlush]
    /\ nextId = 0
    /\ tpc = "idle"
    /\ ctxOutput = Undefined
    /\ event = NoEvent
    /\ attempt = 0
    /\ lastError = NoError
    /\ attemptFailure = "none"
    /\ result = NoResult
    /\ traceError = NoTraceError
    /\ verifyResult = NoVerify
    /\ delivered = {}
    /\ clientDropped = {}
    /\ requeued = {}
    /\ lastFlush = "none"
    /\ flushRejected = FALSE
    /\ warning = "none"
    /\ enqueueWarned = <<>>
    /\ closeCalls = 0
    /\ tickedClosed = FALSE

\* new Session(...): seq = 0, history = [] (session.ts lines 126-127)
SessionInit ==
    /\ seq = 0
    /\ history = <<>>
    /\ calls = [c \in CallSlots |-> NoCall]
    /\ stamped = <<>>
    /\ started = 0
    /\ overlapped = FALSE
    /\ failed = FALSE
    /\ ended = [how |-> "none", block |-> FALSE, output |-> Undefined]

\* ------------------------------------------- configuration (config.ts)
\* a threshold value: a number in hundredths (0.8 is 80), or `undefined`
Num(v) == [num |-> TRUE, v |-> v]
NotANumber == [num |-> FALSE, v |-> 0]
ThresholdValues == {20, 30, 50, 80, 90}
\* one key of the partial threshold: absent, or present with a value
ThresholdFields ==
    {[set |-> FALSE, val |-> NotANumber], [set |-> TRUE, val |-> NotANumber]}
      \cup {[set |-> TRUE, val |-> Num(v)] : v \in ThresholdValues}
ThresholdInputs ==
    [pass : ThresholdFields, flag : ThresholdFields, block : ThresholdFields]
NoThresholdInput ==
    [pass |-> [set |-> FALSE, val |-> NotANumber],
     flag |-> [set |-> FALSE, val |-> NotANumber],
     block |-> [set |-> FALSE, val |-> NotANumber]]
\* config.ts line 33: DEFAULTS.threshold
DefaultThreshold == [pass |-> Num(80), flag |-> Num(50), block |-> Num(30)]
NoThreshold == [pass |-> NotANumber, flag |-> NotANumber,
                block |-> NotANumber]
NoResolved == [status |-> "pending", threshold |-> NoThreshold]

\* an API key string: `lead` blanks, a body of `body` characters (with one
\* blank inside it when `inner` is set), `trail` blanks
Blanks(n) == [i \in 1..n |-> " "]
KeyText(lead, body, inner, trail) ==
    Blanks(lead)
      \o [i \in 1..body |-> IF inner /\ i = 2 /\ body >= 3 THEN " " ELSE "k"]
      \o Blanks(trail)
\* opts.apiKey: undefined, or a string
ApiKeys ==
    {[present |-> FALSE, text |-> <<>>]}
      \cup {[present |-> TRUE, text |-> KeyText(l, b, n, t)] :
               l \in 0..1, b \in 0..MaxKeyBody, n \in BOOLEAN, t \in 0..1}
ValidKey == [present |-> TRUE, text |-> KeyText(0, MinKeyLength, FALSE, 0)]

\* the state of a constructed Vex with the default thresholds
ConfigDone ==
    /\ apiKey = ValidKey
    /\ thresholdInput = NoThresholdInput
    /\ ctor = "ok"
    /\ transports = (IF mode = "sync" THEN {"async", "sync"} ELSE {"async"})
    /\ threshold = DefaultThreshold
    /\ resolved = NoResolved

\* ---------------------------------------------- JSON-like values (utils)
\* a value is a primitive, an array or an object; an object is the list of
\* its entries in insertion order, an array element is an entry with an
\* empty key
Leaf(x) == [t |-> "leaf", p |-> x, items |-> <<>>]
Arr(elems) == [t |-> "arr", p |-> "", items |-> elems]
Obj(entries) == [t |-> "obj", p |-> "", items |-> entries]
Entry(k, v) == [k |-> k, v |-> v]
Uppers == {"A", "B"}
Lowers == {"a", "b"}
FieldChars == {"a", "B", "_", "1"}
FieldsUpTo(n) == UNION {[1..m -> FieldChars] : m \in 1..n}
Fields == FieldsUpTo(MaxFieldLen)
InnerFields == FieldsUpTo(MaxFieldLen - 1)
\* the values given to the conversions: an object with one entry holding a
\* primitive, an object, or an array with an object in it, and an object
\* with two entries
CaseShapes == {"leaf", "null", "object", "array", "pair"}
CaseInput(shape, k, k2) ==
    CASE shape = "leaf" -> Obj(<<Entry(k, Leaf("x"))>>)
      [] shape = "null" -> Obj(<<Entry(k, Leaf("null"))>>)
      [] shape = "object" -> Obj(<<Entry(k, Obj(<<Entry(k2, Leaf("x"))>>))>>)
      [] shape = "array" ->
            Obj(<<Entry(k, Arr(<<Entry(<<>>, Leaf("x")),
                                 Entry(<<>>, Obj(<<Entry(k2, Leaf("x"))>>))
                               >>))>>)
      [] shape = "pair" ->
            Obj(<<Entry(k, Leaf("x")), Entry(k2, Leaf("null"))>>)

\* no conversion requested
CaseIdle ==
    /\ caseInput = Leaf("x")
    /\ caseDir = "none"
    /\ caseWire = Leaf("x")
    /\ caseBack = Leaf("x")
    /\ casePc = "done"

\* no verify call under study, and an endpoint that may fail
FieldsInit ==
    /\ VexFieldsInit
    /\ RequestIdle
    /\ healthy = FALSE

VexInit ==
    /\ mode \in Modes
    /\ FieldsInit
    /\ flushTimer = TRUE
    /\ ConfigDone
    /\ CaseIdle

Init ==
    /\ VexInit
    /\ windowSize = MaxWindow
    /\ SessionInit

\* ---------------------------------------------------- AsyncTransport.flush
\* the flush() invocation takes the lowest free slot of the model
FreeSlot(f) ==
    /\ flushes[f].pc = "idle"
    /\ \A g \in FlushSlots : g < f => flushes[g].pc # "idle"

\* flush that snapshots and posts even an empty buffer
BufferEmpty_Never(buf) == FALSE

\* line 43: `if (this.buffer.length === 0) return;`
BufferEmpty(buf) == Len(buf) = 0

\* snapshot that takes only the oldest event of the buffer
Snapshot_HeadOnly(buf) == SubSeq(buf, 1, 1)

\* line 44: `const batch = [...this.buffer];`
Snapshot(buf) == buf

\* flush that leaves the snapshot in the buffer
BufferAfterSnapshot_Kept(buf) == buf

\* line 45: `this.buffer = [];`
BufferAfterSnapshot(buf) == <<>>

\* lines 72 and 74: a retryable failure on attempt `a` waits before the next
\* attempt unless it was the last one
RetryAfter(a) == a < maxRetries - 1

\* client-error test that only takes 4xx for permanent
IsClientError_Only4xx(status) == status >= 400 /\ status < 500

\* line 66: `if (response.status < 500)` (reached only when !response.ok)
IsClientError(status) == status < 500

\* flush without its catch block
FlushCatches_Never(r) == FALSE

\* line 73: `catch {` catches whatever fetch() threw
FlushCatches(r) == r.kind = "throw"

\* history of what the endpoint answered for the events of a batch
Answered2xx(r) == r.kind = "status" /\ r.status \in 200..299
AnsweredBelow500(r) ==
    r.kind = "status" /\ r.status \notin 200..299 /\ r.status < 500

\* line 46: `batch.map((e) => toSnakeCase(e))` throws when the conversion
\* of one event of the batch does
ConvertThrows(batch) ==
    \E i \in 1..Len(batch) : batch[i].payload = "circular"

\* line 61: `JSON.stringify({ events: payload })` throws when one event of
\* the batch holds a value without JSON text
StringifyBatchThrows(batch) ==
    \E i \in 1..Len(batch) : batch[i].payload = "bigint"

\* lines 72-85, for attempt `a` of flush f that failed retryably, with buf
\* the buffer and rq the requeued ids at that moment: the back-off delay,
\* or after the last attempt the requeue
FlushAfterFailure(f, batch, a, buf, rq) ==
    IF RetryAfter(a)
    THEN \* lines 72 / 74: back off, then loop
         /\ flushes' = [flushes EXCEPT ![f] =
                [pc |-> "delay", batch |-> batch, attempt |-> a]]
         /\ buffer' = buf
         /\ requeued' = rq
         /\ UNCHANGED <<droppedCount, lastFlush>>
    ELSE \* lines 77-85: all retries exhausted
         /\ flushes' = [flushes EXCEPT ![f] = NoFlush]
         /\ buffer' = RequeueBuffer(batch, buf)
         /\ droppedCount' = RequeueDropped(batch, buf, droppedCount)
         /\ requeued' = rq \cup Ids(EventsToRetry(batch, buf))
         /\ lastFlush' = "requeued"

\* lines 51-63: iteration `a` of the loop of flush f. The request is built
\* inside the try block, after the abort timer was armed: when
\* JSON.stringify throws, no request is issued and the catch block runs;
\* otherwise flush waits at `await fetch(...)`
FlushAttemptStarts(f, batch, a, buf, rq) ==
    IF StringifyBatchThrows(batch)
    THEN FlushAfterFailure(f, batch, a, buf, rq)
    ELSE /\ flushes' = [flushes EXCEPT ![f] =
                [pc |-> "fetch", batch |-> batch, attempt |-> a]]
         /\ buffer' = buf
         /\ requeued' = rq
         /\ UNCHANGED <<droppedCount, lastFlush>>

\* flush(), lines 43-63: from the call to its first suspension. With an
\* empty buffer the call returns at once (line 43). Otherwise the buffer is
\* copied and cleared, and the batch converted (line 46): a conversion that
\* throws leaves flush() before its try block, so the promise rejects and
\* the batch is in no buffer any more
FlushStart ==
    IF BufferEmpty(buffer)
    THEN /\ lastFlush' = "noop"
         /\ UNCHANGED <<buffer, droppedCount, flushes, delivered,
                        clientDropped, requeued, flushRejected>>
    ELSE IF ConvertThrows(Snapshot(buffer))
    THEN /\ buffer' = BufferAfterSnapshot(buffer)
         /\ requeued' = requeued \ Ids(buffer)
         /\ flushRejected' = TRUE
         /\ lastFlush' = "rejected"
         /\ UNCHANGED <<droppedCount, flushes, delivered, clientDropped>>
    ELSE \E f \in FlushSlots :
         /\ FreeSlot(f)
         /\ FlushAttemptStarts(f, Snapshot(buffer), 0,
                               BufferAfterSnapshot(buffer),
                               requeued \ Ids(buffer))
         /\ UNCHANGED <<delivered, clientDropped, flushRejected>>

\* lines 64-86: the continuation after `await fetch(...)` settles
FlushResponse(f, r) ==
    LET fl == flushes[f] IN
    /\ fl.pc = "fetch"
    /\ delivered' = IF Answered2xx(r) THEN delivered \cup Ids(fl.batch)
                    ELSE delivered
    /\ clientDropped' = IF AnsweredBelow500(r)
                        THEN clientDropped \cup Ids(fl.batch)
                        ELSE clientDropped
    /\ IF r.kind = "status" /\ ResponseOk(r.status)
       THEN \* line 65: delivered
            /\ flushes' = [flushes EXCEPT ![f] = NoFlush]
            /\ lastFlush' = "delivered"
            /\ UNCHANGED <<buffer, droppedCount, requeued, flushRejected>>
       ELSE IF r.kind = "status" /\ IsClientError(r.status)
       THEN \* lines 66-71: client error, batch dropped
            /\ flushes' = [flushes EXCEPT ![f] = NoFlush]
            /\ lastFlush' = "clientError"
            /\ UNCHANGED <<buffer, droppedCount, requeued, flushRejected>>
       ELSE IF r.kind = "throw" /\ ~FlushCatches(r)
       THEN \* an exception leaving flush() rejects its promise
            /\ flushes' = [flushes EXCEPT ![f] = NoFlush]
            /\ flushRejected' = TRUE
            /\ lastFlush' = "rejected"
            /\ UNCHANGED <<buffer, droppedCount, requeued>>
       ELSE /\ FlushAfterFailure(f, fl.batch, fl.attempt, buffer, requeued)
            /\ UNCHANGED flushRejected

\* this.delay(...) resolves: the next loop iteration (lines 51-63)
FlushDelayDone(f) ==
    /\ flushes[f].pc = "delay"
    /\ FlushAttemptStarts(f, flushes[f].batch, flushes[f].attempt + 1,
                          buffer, requeued)
    /\ UNCHANGED <<delivered, clientDropped, flushRejected>>

\* a direct transport.flush() call by the owner of the transport
ManualFlush ==
    /\ FlushStart
    /\ UNCHANGED <<vexVars, traceVars, otherVars>>

\* vex.ts lines 54-63: the interval fires for as long as it is not cleared
TimerArmed(t) == t

\* the setInterval callback of the Vex constructor (vex.ts lines 54-56)
TimerTick ==
    /\ TimerArmed(flushTimer)
    /\ FlushStart
    /\ tickedClosed' = (tickedClosed \/ closed)
    /\ UNCHANGED <<mode, closed, flushTimer, closeCalls, traceVars,
                   otherVars>>

\* close() that runs its body on every call
AlreadyClosed_Never(c) == FALSE

\* vex.ts line 85: `if (this.closed) return;`
AlreadyClosed(c) == c

\* vex.ts lines 87-90: clearInterval(this.flushTimer); this.flushTimer = null
TimerAfterClose(t) == FALSE

\* Vex.close(): flag, clearInterval, asyncTransport.close() -> flush()
Close ==
    /\ closeCalls < MaxCloseCalls
    /\ closeCalls' = closeCalls + 1
    /\ IF AlreadyClosed(closed)
       THEN UNCHANGED <<closed, flushTimer, asyncVars>>
       ELSE /\ closed' = TRUE
            /\ flushTimer' = TimerAfterClose(flushTimer)
            /\ FlushStart
    /\ UNCHANGED <<mode, tickedClosed, traceVars, otherVars>>

FetchSettles ==
    \E f \in FlushSlots, r \in FetchOutcomes :
        /\ FlushResponse(f, r)
        /\ UNCHANGED <<vexVars, traceVars, otherVars>>

DelayElapses ==
    \E f \in FlushSlots :
        /\ FlushDelayDone(f)
        /\ UNCHANGED <<vexVars, traceVars, otherVars>>

\* =================================================== SyncTransport.verify
\* toCamelCase(raw) on the recognised keys of the verify response
VerifyToCamelCase(raw) ==
    [executionId |-> raw.execution_id,
     confidence |-> raw.confidence,
     action |-> raw.action,
     output |-> raw.output,
     correctionAttempts |-> raw.correction_attempts,
     checks |-> raw.checks,
     corrected |-> raw.corrected,
     originalOutput |-> raw.original_output]

\* line 92: `if (err instanceof VerificationError) throw err;`
IsVerificationError(name) == name = "VerificationError"

\* the error that one attempt raises inside the try block (lines 71-90),
\* "none" when the attempt returns
AttemptError(o) ==
    CASE o \in FetchFailures -> o
      [] o = "TypeError" -> o
      [] o = "status" -> "VerificationError"
      [] o = "status-text-fails" -> "BodyReadError"
      [] o = "ok-json-fails" -> "SyntaxError"
      [] OTHER -> "none"

\* catch block that keeps the failure of the first attempt
LastErrorAfter_KeepFirst(prev, err, a) ==
    IF prev.name = "none" THEN [name |-> err, attempt |-> a] ELSE prev

\* line 93: `lastError = err;` in the catch block of attempt `a`
LastErrorAfter(prev, err, a) == [name |-> err, attempt |-> a]

\* line 94: wait and loop again unless this was the last attempt
VerifyRetryAfter(a) == a < syncMaxRetries - 1

\* ====================================================== Vex.processEvent
\* vex.ts lines 110-119: the VexResult built from the verify response
BuildResult(response, ev) ==
    [output |-> Coalesce(response.output, ev.output),
     confidence |-> Coalesce(response.confidence, Null),
     action |-> Coalesce(response.action, "pass"),
     corrections |-> Coalesce(response.correctionAttempts, Null),
     executionId |-> IF response.executionId = 0 THEN ev.executionId
                     ELSE response.executionId,
     verification |-> Coalesce(response.checks, Null),
     corrected |-> Coalesce(response.corrected, "false"),
     originalOutput |-> Coalesce(response.originalOutput, Null)]

\* pass-through result that forgets the recorded output
passThroughResult_NoOutput(ev) ==
    [output |-> Undefined, confidence |-> Null, action |-> "pass",
     corrections |-> Null, executionId |-> ev.executionId,
     verification |-> Null, corrected |-> "false", originalOutput |-> Null]

\* vex.ts lines 135-146
passThroughResult(ev) ==
    [output |-> ev.output, confidence |-> Null, action |-> "pass",
     corrections |-> Null, executionId |-> ev.executionId,
     verification |-> Null, corrected |-> "false", originalOutput |-> Null]

\* a processEvent that raises no block error
Blocks_Never(res) == FALSE

\* vex.ts line 120: `if (result.action === 'block') throw new VexBlockError`
Blocks(res) == res.action = "block"

\* catch block that swallows every error, the block error included
Rethrown_Never(name) == FALSE

\* catch block that also lets a VerificationError through
Rethrown_AlsoVerification(name) ==
    name \in {"VexBlockError", "VerificationError"}

\* vex.ts line 126: `if (err instanceof VexBlockError) throw err;`
Rethrown(name) == name = "VexBlockError"

\* processEvent that logs nothing for a flagged result
FlagWarns_Never(res) == FALSE

\* vex.ts line 121: `if (result.action === 'flag') { console.warn(...) }`
FlagWarns(res) == res.action = "flag"

\* vex.ts lines 105-129: processEvent after verify() returned `response`
\* (tp, res, err, warn) = new tpc, result, traceError, warning
AfterVerifyReturn(response, ev) ==
    LET res == BuildResult(response, ev) IN
    IF Blocks(res)
    THEN IF Rethrown("VexBlockError")
         THEN <<"rejected", NoResult,
                [name |-> "VexBlockError", result |-> res], "none">>
         ELSE <<"resolved", passThroughResult(ev), NoTraceError, "failed">>
    ELSE <<"resolved", res, NoTraceError,
           IF FlagWarns(res) THEN "flagged" ELSE "none">>

\* vex.ts lines 125-129: processEvent after verify() threw `name`
AfterVerifyThrow(name, ev) ==
    IF Rethrown(name)
    THEN <<"rejected", NoResult, [name |-> name, result |-> NoResult],
           "none">>
    ELSE <<"resolved", passThroughResult(ev), NoTraceError, "failed">>

\* ============================================================= Vex.trace
\* trace(): new TraceContext, then `await fn(ctx)` starts the callback
TraceBegin ==
    /\ tpc \in {"idle", "resolved", "rejected"}
    /\ nextId < MaxEvents
    /\ tpc' = "callback"
    /\ ctxOutput' = Undefined
    /\ event' = NoEvent
    /\ attempt' = 0
    /\ lastError' = NoError
    /\ attemptFailure' = "none"
    /\ result' = NoResult
    /\ traceError' = NoTraceError
    /\ verifyResult' = NoVerify
    /\ warning' = "none"
    /\ UNCHANGED <<nextId, enqueueWarned, vexVars, asyncVars, otherVars>>

\* ctx.record(output) inside the callback
Record ==
    /\ tpc = "callback"
    /\ \E v \in RecordedOutputs : ctxOutput' = v
    /\ UNCHANGED <<nextId, tpc, event, attempt, lastError, attemptFailure,
                   result, traceError, verifyResult, warning, enqueueWarned,
                   vexVars, asyncVars, otherVars>>

\* the callback throws (or its promise rejects): trace() rejects with it
CallbackThrows ==
    /\ tpc = "callback"
    /\ tpc' = "rejected"
    /\ traceError' = [name |-> "CallbackError", result |-> NoResult]
    /\ UNCHANGED <<nextId, ctxOutput, event, attempt, lastError,
                   attemptFailure, result, verifyResult, warning,
                   enqueueWarned, vexVars, asyncVars, otherVars>>

\* trace.ts buildEvent / models.ts createExecutionEvent: a fresh executionId
buildEvent == [executionId |-> nextId + 1, output |-> ctxOutput]

\* what the transport can do with a recorded value: write it ("json"),
\* or fail to convert it or to write it
Payload(v) ==
    IF ToSnakeCaseThrows(v) THEN "circular"
    ELSE IF StringifyThrows(v) THEN "bigint" ELSE "json"
Payloads == {"json", "circular", "bigint"}

\* the buffer holds the event objects themselves; an entry is modelled by
\* the event's identity and by what the transport can do with the event
BufferEntry(ev) ==
    [executionId |-> ev.executionId, payload |-> Payload(ev.output)]

\* processEvent that never verifies inline
UsesSync_Never(m) == FALSE

\* vex.ts line 103: `this.config.mode === 'sync' && this.syncTransport`
\* (the constructor creates syncTransport exactly in sync mode)
UsesSync(m) == m = "sync"

\* the callback returns, async mode: buildEvent, processEvent enqueues and
\* returns the pass-through result (vex.ts lines 131-132)
TraceAsync ==
    /\ tpc = "callback"
    /\ ~UsesSync(mode)
    /\ event' = buildEvent
    /\ nextId' = nextId + 1
    /\ buffer' = EnqueueBuffer(buffer, BufferEntry(buildEvent))
    /\ droppedCount' = EnqueueDropped(buffer, droppedCount)
    /\ enqueueWarned' = EnqueueWarned(buffer, droppedCount, enqueueWarned)
    /\ result' = passThroughResult(buildEvent)
    /\ tpc' = "resolved"
    /\ UNCHANGED <<ctxOutput, attempt, lastError, attemptFailure, traceError,
                   verifyResult, warning, vexVars, flushes, delivered,
                   clientDropped, requeued, lastFlush, flushRejected,
                   otherVars>>

\* sync.ts lines 84-98 and vex.ts lines 110-129: attempt `a` of verify(ev)
\* ends with outcome o (and body raw when "ok"); what verify returns or
\* throws runs on into processEvent's continuation
VerifyAttemptEnds(o, raw, a, ev) ==
    /\ attemptFailure' = AttemptError(o)
    /\ attempt' = a
    /\ LET err == AttemptError(o) IN
       IF err = "none"
       THEN \* lines 89-90: return toCamelCase(raw)
            IF o = "ok-null"
            THEN \* verify returns null; processEvent's `response.output`
                 \* raises a TypeError inside its try block
                 LET out == AfterVerifyThrow("TypeError", ev) IN
                 /\ verifyResult' = [kind |-> "returnNull",
                                     response |-> NoResponse,
                                     error |-> "none"]
                 /\ tpc' = out[1] /\ result' = out[2] /\ traceError' = out[3]
                 /\ warning' = out[4]
                 /\ UNCHANGED lastError
            ELSE LET response == VerifyToCamelCase(raw)
                     out == AfterVerifyReturn(response, ev) IN
                 /\ verifyResult' = [kind |-> "return",
                                     response |-> response,
                                     error |-> "none"]
                 /\ tpc' = out[1] /\ result' = out[2] /\ traceError' = out[3]
                 /\ warning' = out[4]
                 /\ UNCHANGED lastError
       ELSE IF IsVerificationError(err)
       THEN \* line 92: rethrown at once
            LET out == AfterVerifyThrow(err, ev) IN
            /\ verifyResult' = [kind |-> "throw", response |-> NoResponse,
                                error |-> err]
            /\ tpc' = out[1] /\ result' = out[2] /\ traceError' = out[3]
            /\ warning' = out[4]
            /\ UNCHANGED lastError
       ELSE IF VerifyRetryAfter(a)
       THEN \* lines 93-95
            /\ lastError' = LastErrorAfter(lastError, err, a)
            /\ tpc' = "vdelay"
            /\ UNCHANGED <<result, traceError, verifyResult, warning>>
       ELSE \* line 98: throw lastError
            LET last == LastErrorAfter(lastError, err, a)
                out == AfterVerifyThrow(last.name, ev) IN
            /\ lastError' = last
            /\ verifyResult' = [kind |-> "throw", response |-> NoResponse,
                                error |-> last.name]
            /\ tpc' = out[1] /\ result' = out[2] /\ traceError' = out[3]
            /\ warning' = out[4]

\* sync.ts lines 72-82: iteration `a` of verify(ev) arms its abort timer
\* and builds the request. JSON.stringify throws inside the try block for
\* a value it cannot write, and the attempt ends in the catch block;
\* otherwise verify waits at `await fetch(...)`
VerifyAttemptStarts(a, ev) ==
    IF StringifyThrows(ev.output)
    THEN VerifyAttemptEnds("TypeError", EmptyBody, a, ev)
    ELSE /\ attempt' = a
         /\ tpc' = "verify"
         /\ UNCHANGED <<lastError, attemptFailure, result, traceError,
                        verifyResult, warning>>

\* the callback returns, sync mode: buildEvent, processEvent calls verify.
\* Line 48 converts the event before the loop: toSnakeCase never returns
\* for an object that contains itself, verify throws the RangeError and
\* processEvent fails open. Otherwise verify runs its first iteration
TraceSync ==
    /\ tpc = "callback"
    /\ UsesSync(mode)
    /\ event' = buildEvent
    /\ nextId' = nextId + 1
    /\ IF ToSnakeCaseThrows(buildEvent.output)
       THEN LET out == AfterVerifyThrow("RangeError", buildEvent) IN
            /\ verifyResult' = [kind |-> "throw", response |-> NoResponse,
                                error |-> "RangeError"]
            /\ tpc' = out[1] /\ result' = out[2] /\ traceError' = out[3]
            /\ warning' = out[4]
            /\ UNCHANGED <<attempt, lastError, attemptFailure>>
       ELSE VerifyAttemptStarts(0, buildEvent)
    /\ UNCHANGED <<ctxOutput, enqueueWarned, vexVars, asyncVars, otherVars>>

\* sync.ts lines 74-89: the fetch of the current attempt settles. A
\* rejection ends the attempt in the catch block; an answer clears the
\* abort timer and verify waits for the body, at `await response.json()`
\* for a 2xx status and at `await response.text()` for any other
VerifyFetchSettles ==
    /\ tpc = "verify"
    /\ \/ \E o \in FetchFailures :
             VerifyAttemptEnds(o, EmptyBody, attempt, event)
       \/ /\ \E status \in Statuses :
                tpc' = IF ResponseOk(status) THEN "vjson" ELSE "vtext"
          /\ UNCHANGED <<attempt, lastError, attemptFailure, result,
                         traceError, verifyResult, warning>>
    /\ UNCHANGED <<nextId, ctxOutput, event, enqueueWarned, vexVars, asyncVars,
                   otherVars>>

\* sync.ts lines 86-90: the body read settles, and the attempt ends
VerifyBodySettles ==
    /\ tpc \in {"vjson", "vtext"}
    /\ IF tpc = "vjson"
       THEN \E o \in JsonOutcomes :
               IF o = "ok"
               THEN \E raw \in RawBodies :
                       VerifyAttemptEnds(o, raw, attempt, event)
               ELSE VerifyAttemptEnds(o, EmptyBody, attempt, event)
       ELSE \E o \in TextOutcomes :
               VerifyAttemptEnds(o, EmptyBody, attempt, event)
    /\ UNCHANGED <<nextId, ctxOutput, event, enqueueWarned, vexVars, asyncVars,
                   otherVars>>

\* verify's this.delay(...) resolves: the next iteration starts
VerifyDelayDone ==
    /\ tpc = "vdelay"
    /\ VerifyAttemptStarts(attempt + 1, event)
    /\ UNCHANGED <<nextId, ctxOutput, event, enqueueWarned, vexVars, asyncVars,
                   otherVars>>

\* ================================================================== Next
Next ==
    \/ TraceBegin
    \/ Record
    \/ CallbackThrows
    \/ TraceAsync
    \/ TraceSync
    \/ VerifyFetchSettles
    \/ VerifyBodySettles
    \/ VerifyDelayDone
    \/ ManualFlush
    \/ TimerTick
    \/ Close
    \/ FetchSettles
    \/ DelayElapses

Spec == Init /\ [][Next]_vars

\* ========================================================= Session.trace
\* Array.prototype.slice(-n) for n >= 0: the last n elements, and the whole
\* array for n = 0 (-0 is 0, a start index that is not negative)
SliceLast(s, n) ==
    IF n = 0 THEN s ELSE SubSeq(s, Max(Len(s) - n, 0) + 1, Len(s))

\* session.ts lines 151-152: the snapshot handed to the TraceContext;
\* `undefined` (no history yet) is the empty sequence
HistorySnapshot(h, w) == IF Len(h) > 0 THEN SliceLast(h, w) ELSE <<>>

\* session.ts lines 172-180: push the turn, then trim to the window
HistoryAfter(h, turn, w) ==
    LET pushed == Append(h, turn) IN
    IF Len(pushed) > w THEN SliceLast(pushed, w) ELSE pushed

\* a session whose counter does not advance
SeqAfter_Stuck(n) == n

\* session.ts line 171: `this.seq++`
SeqAfter(n) == n + 1

\* the last step ended no call
NoEnding == [how |-> "none", block |-> FALSE, output |-> Undefined]

OthersInFlight(c) == \E d \in CallSlots : d # c /\ calls[d].pc # "idle"

\* session.ts lines 149-168: the call up to `await fn(ctx)`
SessionTraceBegin(c) ==
    /\ calls[c].pc = "idle"
    /\ \A d \in CallSlots : d < c => calls[d].pc # "idle"
    /\ started < MaxEvents
    /\ calls' = [calls EXCEPT ![c] =
           [pc |-> "callback", currentSeq |-> seq,
            snapshot |-> HistorySnapshot(history, windowSize),
            output |-> Undefined]]
    /\ started' = started + 1
    /\ overlapped' = (overlapped \/ OthersInFlight(c))
    /\ ended' = NoEnding
    /\ UNCHANGED <<windowSize, seq, history, stamped, failed, configVars,
                   caseVars, vexVars, traceVars, asyncVars, requestVars,
                   envVars, contextVars>>

\* ctx.record(output) inside the callback of call c
SessionRecord(c) ==
    /\ calls[c].pc = "callback"
    /\ \E v \in Outputs : calls' = [calls EXCEPT ![c].output = v]
    /\ ended' = NoEnding
    /\ UNCHANGED <<windowSize, seq, history, stamped, started, overlapped,
                   failed, configVars, caseVars, vexVars, traceVars,
                   asyncVars, requestVars, envVars, contextVars>>

\* the callback of call c throws: line 168 rethrows, the call rejects
SessionCallbackThrows(c) ==
    /\ calls[c].pc = "callback"
    /\ calls' = [calls EXCEPT ![c] = NoCall]
    /\ failed' = TRUE
    /\ ended' = [NoEnding EXCEPT !.how = "callback-threw"]
    /\ UNCHANGED <<windowSize, seq, history, stamped, started, overlapped,
                   configVars, caseVars, vexVars, traceVars, asyncVars,
                   requestVars, envVars, contextVars>>

\* trace.ts buildEvent for the context of call c
SessionEvent(c) ==
    [executionId |-> nextId + 1, output |-> calls[c].output]

\* session.ts line 169: the callback returned; _processTraceContext builds
\* the event (stamped with currentSeq) and processEvent runs to its first
\* suspension: the enqueue in async mode, the verify request in sync mode
SessionProcess(c) ==
    /\ calls[c].pc = "callback"
    /\ calls' = [calls EXCEPT ![c].pc = "processing"]
    /\ stamped' = Append(stamped, calls[c].currentSeq)
    /\ nextId' = nextId + 1
    /\ ended' = NoEnding
    /\ IF UsesSync(mode)
       THEN UNCHANGED <<buffer, droppedCount, enqueueWarned>>
       ELSE /\ buffer' = EnqueueBuffer(buffer, BufferEntry(SessionEvent(c)))
            /\ droppedCount' = EnqueueDropped(buffer, droppedCount)
            /\ enqueueWarned' =
                  EnqueueWarned(buffer, droppedCount, enqueueWarned)
    /\ UNCHANGED <<windowSize, seq, history, started, overlapped, failed,
                   configVars, caseVars, vexVars, tpc, ctxOutput, event,
                   attempt, lastError, attemptFailure, result, traceError,
                   verifyResult, warning, flushes, delivered, clientDropped,
                   requeued, lastFlush, flushRejected, requestVars, envVars,
                   contextVars>>

\* how processEvent settles for call c: "resolved" or "rejected".
\* Async mode returns the pass-through result; in sync mode verify() ends
\* by returning the body `raw` (thrown = "none") or by throwing `thrown`.
ProcessSettlement(thrown, raw, ev) ==
    IF ~UsesSync(mode) THEN "resolved"
    ELSE IF thrown = "none"
    THEN AfterVerifyReturn(VerifyToCamelCase(raw), ev)[1]
    ELSE AfterVerifyThrow(thrown, ev)[1]

\* the VexResult that processEvent resolves with (when it resolves)
ProcessResult(thrown, raw, ev) ==
    IF ~UsesSync(mode) THEN passThroughResult(ev)
    ELSE IF thrown = "none"
    THEN AfterVerifyReturn(VerifyToCamelCase(raw), ev)[2]
    ELSE AfterVerifyThrow(thrown, ev)[2]

\* a turn that stores the output of the result
TurnOutput_FromResult(recorded, res) == res.output

\* session.ts line 175: `output: ctx.getOutput()`
TurnOutput(recorded, res) == recorded

\* what the verification of a call ended with, as the server gave it:
\* whether the body's action was block, and the body's output
Ending(thrown, raw) ==
    IF ~UsesSync(mode) THEN [NoEnding EXCEPT !.how = "enqueued"]
    ELSE IF thrown = "none"
    THEN [how |-> "returned", block |-> raw.action = "block",
          output |-> raw.output]
    ELSE [NoEnding EXCEPT !.how = "threw"]

\* session.ts lines 169-182: the continuation after _processTraceContext
SessionSettles(c, thrown, raw) ==
    /\ calls[c].pc = "processing"
    /\ IF ProcessSettlement(thrown, raw, SessionEvent(c)) = "resolved"
       THEN /\ seq' = SeqAfter(seq)
            /\ history' = HistoryAfter(history,
                   [sequenceNumber |-> calls[c].currentSeq,
                    output |-> TurnOutput(calls[c].output,
                       ProcessResult(thrown, raw, SessionEvent(c)))],
                   windowSize)
            /\ UNCHANGED failed
       ELSE /\ failed' = TRUE
            /\ UNCHANGED <<seq, history>>
    /\ ended' = Ending(thrown, raw)
    /\ calls' = [calls EXCEPT ![c] = NoCall]
    /\ UNCHANGED <<windowSize, stamped, started, overlapped, configVars,
                   caseVars, vexVars, traceVars, asyncVars, requestVars,
                   envVars, contextVars>>

SessionBegins == \E c \in CallSlots : SessionTraceBegin(c)
SessionRecords == \E c \in CallSlots : SessionRecord(c)
SessionThrows == \E c \in CallSlots : SessionCallbackThrows(c)
SessionProcesses == \E c \in CallSlots : SessionProcess(c)
\* how verify() can end for one call: it returns a body or throws. The
\* session sees of it only whether processEvent resolved or rejected, which
\* depends on the body's action alone: one body per action is tried,
\* and a pass body that carries a substituted output
VerdictBodies ==
    {raw \in RawBodies :
        /\ raw.execution_id = 0 /\ raw.confidence = Undefined
        /\ raw.correction_attempts = Null /\ raw.checks = Undefined
        /\ raw.output # Undefined => raw.action = "pass"}
VerifyEndings ==
    [thrown : {"none"}, raw : VerdictBodies]
      \cup [thrown : {"VerificationError", "NetworkError"},
            raw : {CHOOSE raw \in VerdictBodies : TRUE}]
SessionSettled ==
    \E c \in CallSlots, e \in VerifyEndings :
        SessionSettles(c, e.thrown, e.raw)

SessionNext ==
    \/ SessionBegins
    \/ SessionRecords
    \/ SessionThrows
    \/ SessionProcesses
    \/ SessionSettled

InitSession ==
    /\ VexInit
    /\ windowSize \in 0..MaxWindow
    /\ SessionInit

SpecSession == InitSession /\ [][SessionNext]_vars

\* ============================================= Vex constructor, config
\* String.prototype.trim on a string of blanks and other characters
Trim(s) ==
    LET solid == {i \in 1..Len(s) : s[i] # " "} IN
    IF solid = {} THEN <<>>
    ELSE SubSeq(s, CHOOSE i \in solid : \A j \in solid : i <= j,
                   CHOOSE i \in solid : \A j \in solid : i >= j)

\* vex.ts line 29: `opts.apiKey?.trim() ?? ''`
TrimmedKey(k) == IF k.present THEN Trim(k.text) ELSE <<>>

\* vex.ts line 30: `if (!key)`
KeyEmpty(key) == Len(key) = 0

\* length test that lets a key of MinKeyLength - 1 characters through
KeyTooShort_OffByOne(key) == Len(key) < MinKeyLength - 1

\* vex.ts line 31: `if (key.length < 10)`
KeyTooShort(key) == Len(key) < MinKeyLength

\* the `<` operator of JavaScript on numbers and undefined
Less(a, b) == a.num /\ b.num /\ a.v < b.v

\* config.ts lines 46-49: { ...DEFAULTS.threshold, ...input?.threshold }
MergeThreshold(input) ==
    [f \in {"pass", "flag", "block"} |->
        IF input[f].set THEN input[f].val ELSE DefaultThreshold[f]]

\* validation that accepts equal neighbours
ValidThresholds_NonStrict(t) ==
    ~Less(t.flag, t.block) /\ ~Less(t.pass, t.flag)
      /\ t.block.num /\ t.flag.num /\ t.pass.num

\* config.ts line 38: `t.block < t.flag && t.flag < t.pass`
ValidThresholds(t) == Less(t.block, t.flag) /\ Less(t.flag, t.pass)

\* `new Vex(opts)`: vex.ts lines 28-63
Construct ==
    /\ ctor = "pending"
    /\ LET key == TrimmedKey(apiKey)
           merged == MergeThreshold(thresholdInput) IN
       IF KeyEmpty(key) \/ KeyTooShort(key) \/ ~ValidThresholds(merged)
       THEN /\ ctor' = "ConfigurationError"
            /\ UNCHANGED <<transports, threshold, flushTimer>>
       ELSE /\ ctor' = "ok"
            /\ threshold' = merged
            /\ transports' = (IF mode = "sync" THEN {"async", "sync"}
                              ELSE {"async"})
            /\ flushTimer' = TRUE
    /\ UNCHANGED <<apiKey, thresholdInput, resolved, mode, closed,
                   closeCalls, tickedClosed, traceVars, asyncVars,
                   sessionVars, caseVars, requestVars, envVars, contextVars>>

\* a direct call resolveConfig({threshold: thresholdInput}): config.ts 45-57
ResolveConfig ==
    /\ resolved.status = "pending"
    /\ LET merged == MergeThreshold(thresholdInput) IN
       resolved' = IF ValidThresholds(merged)
                   THEN [status |-> "ok", threshold |-> merged]
                   ELSE [status |-> "ConfigurationError",
                         threshold |-> NoThreshold]
    /\ UNCHANGED <<apiKey, thresholdInput, ctor, transports, threshold,
                   vexVars, traceVars, asyncVars, sessionVars, caseVars,
                   requestVars, envVars, contextVars>>

ConfigNext ==
    \/ Construct
    \/ ResolveConfig

\* before `new Vex(opts)`: nothing created, the inputs chosen
InitConfig ==
    /\ mode \in Modes
    /\ FieldsInit
    /\ flushTimer = FALSE
    /\ windowSize = MaxWindow
    /\ SessionInit
    /\ apiKey \in ApiKeys
    /\ thresholdInput \in ThresholdInputs
    /\ ctor = "pending"
    /\ transports = {}
    /\ threshold = NoThreshold
    /\ resolved = NoResolved
    /\ CaseIdle

SpecConfig == InitConfig /\ [][ConfigNext]_vars

\* ===================================================== key casing (utils)
Lower(c) == CASE c = "A" -> "a" [] c = "B" -> "b" [] OTHER -> c
Upper(c) == CASE c = "a" -> "A" [] c = "b" -> "B" [] OTHER -> c

\* replacement that keeps the letter's case
CamelChar_KeepCase(c) == IF c \in Uppers THEN <<"_", c>> ELSE <<c>>

\* utils.ts line 2: /[A-Z]/g replaced by `_${letter.toLowerCase()}`
CamelChar(c) == IF c \in Uppers THEN <<"_", Lower(c)>> ELSE <<c>>

RECURSIVE camelToSnake(_)
\* utils.ts lines 1-3
camelToSnake(str) ==
    IF Len(str) = 0 THEN <<>>
    ELSE CamelChar(Head(str)) \o camelToSnake(Tail(str))

RECURSIVE snakeToCamel(_)
\* utils.ts lines 5-7: /_([a-z])/g replaced by the letter in upper case,
\* matches taken left to right without overlap
snakeToCamel(str) ==
    IF Len(str) = 0 THEN <<>>
    ELSE IF Len(str) >= 2 /\ str[1] = "_" /\ str[2] \in Lowers
    THEN <<Upper(str[2])>> \o snakeToCamel(SubSeq(str, 3, Len(str)))
    ELSE <<Head(str)>> \o snakeToCamel(Tail(str))

ConvertKey(dir, k) ==
    IF dir = "toSnake" THEN camelToSnake(k) ELSE snakeToCamel(k)

\* `result[key] = value`: a new key is appended, an existing key keeps its
\* place and takes the new value
SetEntry(entries, k, v) ==
    IF \E i \in 1..Len(entries) : entries[i].k = k
    THEN [i \in 1..Len(entries) |->
            IF entries[i].k = k THEN Entry(k, v) ELSE entries[i]]
    ELSE Append(entries, Entry(k, v))

RECURSIVE ConvertValue(_, _)
RECURSIVE ConvertEntries(_, _, _)
\* utils.ts lines 13-17 / 24-28: the loop over Object.entries(obj)
ConvertEntries(dir, entries, acc) ==
    IF Len(entries) = 0 THEN acc
    ELSE ConvertEntries(dir, Tail(entries),
            SetEntry(acc, ConvertKey(dir, Head(entries).k),
                     ConvertValue(dir, Head(entries).v)))

\* utils.ts lines 9-18 (toSnakeCase) and 20-29 (toCamelCase)
ConvertValue(dir, val) ==
    IF val.t = "leaf" THEN val
    ELSE IF val.t = "arr"
    THEN Arr([i \in 1..Len(val.items) |->
                Entry(<<>>, ConvertValue(dir, val.items[i].v))])
    ELSE Obj(ConvertEntries(dir, val.items, <<>>))

toSnakeCase(obj) == ConvertValue("toSnake", obj)
toCamelCase(obj) == ConvertValue("toCamel", obj)

\* the first conversion of the round trip
CaseFirst ==
    /\ casePc = "input"
    /\ caseWire' = (IF caseDir = "snakeFirst" THEN toSnakeCase(caseInput)
                    ELSE toCamelCase(caseInput))
    /\ casePc' = "wire"
    /\ UNCHANGED <<caseInput, caseDir, caseBack, vexVars, traceVars, asyncVars,
                   sessionVars, configVars, requestVars, envVars, contextVars>>

\* the conversion back
CaseSecond ==
    /\ casePc = "wire"
    /\ caseBack' = (IF caseDir = "snakeFirst" THEN toCamelCase(caseWire)
                    ELSE toSnakeCase(caseWire))
    /\ casePc' = "done"
    /\ UNCHANGED <<caseInput, caseDir, caseWire, vexVars, traceVars, asyncVars,
                   sessionVars, configVars, requestVars, envVars, contextVars>>

CaseNext ==
    \/ CaseFirst
    \/ CaseSecond

InitCase ==
    /\ mode = "async"
    /\ FieldsInit
    /\ flushTimer = TRUE
    /\ ConfigDone
    /\ windowSize = MaxWindow
    /\ SessionInit
    /\ \E shape \in CaseShapes, k \in Fields, k2 \in InnerFields :
          /\ shape \in {"leaf", "null"} => k2 = <<"a">>
          /\ shape = "pair" => k # k2
          /\ caseInput = CaseInput(shape, k, k2)
    /\ caseDir \in {"snakeFirst", "camelFirst"}
    /\ caseWire = Leaf("x")
    /\ caseBack = Leaf("x")
    /\ casePc = "input"

SpecCase == InitCase /\ [][CaseNext]_vars

\* ================================================ AsyncTransport on its own
\* The transport driven directly through its public methods, as its unit
\* tests drive it: enqueue(event) and flush(), with the fetch answers.

\* transport.enqueue(event) called by the owner of the transport
DirectEnqueue ==
    /\ nextId < MaxEnqueues
    /\ nextId' = nextId + 1
    /\ \E p \in Payloads :
          buffer' = EnqueueBuffer(buffer, [executionId |-> nextId + 1,
                                           payload |-> p])
    /\ droppedCount' = EnqueueDropped(buffer, droppedCount)
    /\ enqueueWarned' = EnqueueWarned(buffer, droppedCount, enqueueWarned)
    /\ UNCHANGED <<tpc, ctxOutput, event, attempt, lastError, attemptFailure,
                   result, traceError, verifyResult, warning, vexVars,
                   flushes, delivered, clientDropped, requeued, lastFlush,
                   flushRejected, otherVars>>

TransportNext ==
    \/ DirectEnqueue
    \/ ManualFlush
    \/ FetchSettles
    \/ DelayElapses

InitTransport == Init /\ mode = "async"

SpecTransport == InitTransport /\ [][TransportNext]_vars

\* ================================================= endpoint that recovers
\* Async mode with an orchestrator that is never closed, and an ingest
\* endpoint that may fail in any way until it recovers; from then on it
\* answers every request with 2xx. Every flush is started by the timer: a
\* direct flush() call does to the transport exactly what a tick does.
\* A callback that throws enqueues nothing and is left out.

\* what fetch() can do once the endpoint has recovered
HealthyOutcomes == {r \in FetchOutcomes : r.kind = "status" /\ r.status < 300}

\* the request of flush f settles
LiveFetch(f) ==
    /\ \E r \in IF healthy THEN HealthyOutcomes ELSE FetchOutcomes :
          FlushResponse(f, r)
    /\ UNCHANGED <<vexVars, traceVars, otherVars>>

LiveFetchSettles == \E f \in FlushSlots : LiveFetch(f)

\* the back-off delay of flush f elapses
LiveDelay(f) ==
    /\ FlushDelayDone(f)
    /\ UNCHANGED <<vexVars, traceVars, otherVars>>

LiveDelayElapses == \E f \in FlushSlots : LiveDelay(f)

\* the endpoint recovers
Recover ==
    /\ ~healthy
    /\ healthy' = TRUE
    /\ UNCHANGED <<vexVars, traceVars, asyncVars, sessionVars, configVars,
                   caseVars, requestVars, contextVars>>

LiveNext ==
    \/ TraceBegin
    \/ Record
    \/ TraceAsync
    \/ TimerTick
    \/ LiveFetchSettles
    \/ LiveDelayElapses
    \/ Recover

InitLive == Init /\ mode = "async"

\* setInterval keeps firing while the interval is not cleared (vex.ts lines
\* 54-56); every fetch settles, by an answer or by its abort timer
\* (async.ts lines 52-63); every setTimeout of the back-off fires
LiveFairness ==
    /\ WF_vars(TimerTick)
    /\ \A f \in FlushSlots : WF_vars(LiveFetch(f)) /\ WF_vars(LiveDelay(f))

SpecLive == InitLive /\ [][LiveNext]_vars /\ LiveFairness

\* ============================================ SyncTransport.verify request
\* One verify(event, opts) call on a constructed SyncTransport: the body it
\* builds, the timeout it selects and the abort timer of each attempt.

\* verify(event, opts), lines 47-73: from the call to the first
\* `await fetch(...)`, whose abort timer is armed with `timeout`
VerifyCall ==
    /\ vpc = "idle"
    /\ bodyMetadata' = RequestMetadata(eventMetadata, verifyOpts)
    /\ verifyTimeout' =
          SelectTimeout(verifyOpts, correctionTimeoutMs, timeoutMs)
    /\ timers' =
          <<SelectTimeout(verifyOpts, correctionTimeoutMs, timeoutMs)>>
    /\ vpc' = "fetch"
    /\ UNCHANGED <<syncInput, timeoutMs, correctionTimeoutMs, verifyOpts,
                   eventMetadata, vexVars, traceVars, asyncVars, sessionVars,
                   configVars, caseVars, envVars, contextVars>>

\* lines 91-95: the catch block of attempt number Len(timers) - 1 for an
\* error that is no VerificationError: `lastError = err`, then
\* `await this.delay(...)` unless this was the last attempt, whose error
\* line 98 throws
VerifyCatch(err) ==
    /\ lastError' = LastErrorAfter(lastError, err, Len(timers) - 1)
    /\ vpc' = IF VerifyRetryAfter(Len(timers) - 1) THEN "delay" ELSE "thrown"
    /\ UNCHANGED <<syncInput, timeoutMs, correctionTimeoutMs, verifyOpts,
                   eventMetadata, verifyTimeout, timers, bodyMetadata,
                   nextId, tpc, ctxOutput, event, attempt, attemptFailure,
                   result, traceError, verifyResult, warning, enqueueWarned,
                   vexVars, asyncVars, sessionVars, configVars, caseVars,
                   envVars, contextVars>>

\* line 74: the fetch rejects (transport failure, or the abort timer fired)
VerifyFetchRejects ==
    /\ vpc = "fetch"
    /\ \E err \in {"NetworkError", "AbortError"} : VerifyCatch(err)

\* lines 74-89: the fetch is answered; the abort timer is cleared and
\* verify waits for the body: `await response.text()` for a non-2xx
\* status, `await response.json()` for a 2xx
VerifyFetchAnswered ==
    /\ vpc = "fetch"
    /\ \E status \in Statuses :
          vpc' = IF ResponseOk(status) THEN "json" ELSE "text"
    /\ UNCHANGED <<syncInput, timeoutMs, correctionTimeoutMs, verifyOpts,
                   eventMetadata, verifyTimeout, timers, bodyMetadata,
                   vexVars, traceVars, asyncVars, sessionVars, configVars,
                   caseVars, envVars, contextVars>>

\* lines 86-92: the body is read; verify returns it (2xx) or throws the
\* VerificationError built from it (non-2xx), which line 92 rethrows
VerifyBodyRead ==
    /\ vpc \in {"json", "text"}
    /\ vpc' = IF vpc = "json" THEN "settled" ELSE "thrown"
    /\ UNCHANGED <<syncInput, timeoutMs, correctionTimeoutMs, verifyOpts,
                   eventMetadata, verifyTimeout, timers, bodyMetadata,
                   vexVars, traceVars, asyncVars, sessionVars, configVars,
                   caseVars, envVars, contextVars>>

\* lines 86-95: reading the body rejects; the catch block treats the error
\* as it treats a rejected fetch
VerifyBodyFails ==
    /\ vpc \in {"json", "text"}
    /\ VerifyCatch(IF vpc = "json" THEN "SyntaxError" ELSE "BodyReadError")

\* line 95 resolves: the next iteration arms its abort timer with the same
\* `timeout` and runs to `await fetch(...)` (lines 72-74)
VerifyDelayElapses ==
    /\ vpc = "delay"
    /\ timers' = Append(timers, verifyTimeout)
    /\ vpc' = "fetch"
    /\ UNCHANGED <<syncInput, timeoutMs, correctionTimeoutMs, verifyOpts,
                   eventMetadata, verifyTimeout, bodyMetadata, vexVars,
                   traceVars, asyncVars, sessionVars, configVars, caseVars,
                   envVars, contextVars>>

VerifyNext ==
    \/ VerifyCall
    \/ VerifyFetchRejects
    \/ VerifyFetchAnswered
    \/ VerifyBodyRead
    \/ VerifyBodyFails
    \/ VerifyDelayElapses

\* a constructed SyncTransport (lines 36-41) and the arguments of one call
InitVerify ==
    /\ mode = "sync"
    /\ VexFieldsInit
    /\ healthy = FALSE
    /\ flushTimer = TRUE
    /\ ConfigDone
    /\ CaseIdle
    /\ windowSize = MaxWindow
    /\ SessionInit
    /\ syncInput \in SyncInputs
    /\ timeoutMs = SyncTimeoutMs(syncInput.opts)
    /\ correctionTimeoutMs = SyncCorrectionTimeoutMs(syncInput.opts)
    /\ IF syncInput.via = "vex"
       THEN /\ verifyOpts \in VexVerifyOptions
            /\ eventMetadata \in ObjectMetadatas
       ELSE /\ verifyOpts \in DirectVerifyOptions
            /\ eventMetadata \in EventMetadatas
    /\ vpc = "idle"
    /\ verifyTimeout = 0
    /\ timers = <<>>
    /\ bodyMetadata = EmptyMetadata

SpecVerify == InitVerify /\ [][VerifyNext]_vars

\* ======================================= TraceContext used on its own
\* A Trace Context whose owner calls its methods in any order, keeps the
\* events it built (as the transport buffer keeps them) and the array
\* getSteps() gave it.
traceRest == <<nextId, tpc, event, attempt, lastError, attemptFailure,
               result, traceError, verifyResult, warning, enqueueWarned>>

\* ctx.record(output), lines 152-154
ContextRecord ==
    /\ \E v \in Outputs : ctxOutput' = v
    /\ cleanSinceBuild' = FALSE
    /\ UNCHANGED <<steps, metadata, stepsCopy, built, stepCalls,
                   clock, traceRest, vexVars, asyncVars, nonContextVars>>

\* ctx.step({type, name}), lines 176-191
ContextStep ==
    /\ Len(stepCalls) < MaxSteps
    /\ \E type \in StepTypes, name \in StepNames :
          /\ steps' = StepsAfterStep(steps, type, name)
          /\ stepCalls' = Append(stepCalls, [type |-> type, name |-> name])
    /\ cleanSinceBuild' = FALSE
    /\ UNCHANGED <<ctxOutput, metadata, stepsCopy, built, clock,
                   traceRest, vexVars, asyncVars, nonContextVars>>

\* ctx.setMetadata(key, value), lines 172-174
ContextSetMetadata ==
    /\ \E key \in ContextKeys, value \in ContextValues :
          metadata' = MetadataAfterSet(metadata, key, value)
    /\ cleanSinceBuild' = FALSE
    /\ UNCHANGED <<ctxOutput, steps, stepsCopy, built, stepCalls,
                   clock, traceRest, vexVars, asyncVars, nonContextVars>>

\* ctx.getSteps(), lines 205-207: the caller keeps the array returned
ContextGetSteps ==
    /\ stepsCopy' = [taken |-> TRUE, v |-> getSteps(steps)]
    /\ UNCHANGED <<ctxOutput, steps, metadata, built, stepCalls,
                   cleanSinceBuild, clock, traceRest, vexVars, asyncVars,
                   nonContextVars>>

\* the caller pushes onto the array getSteps() returned
\* (`steps.push(steps[0])` in the test "records steps")
CopyPush ==
    /\ stepsCopy.taken
    /\ stepsCopy.v # <<>>
    /\ Len(stepsCopy.v) <= MaxSteps
    /\ stepsCopy' = [stepsCopy EXCEPT !.v = Append(@, stepsCopy.v[1])]
    /\ UNCHANGED <<ctxOutput, steps, metadata, built, stepCalls,
                   cleanSinceBuild, clock, traceRest, vexVars, asyncVars,
                   nonContextVars>>

\* ctx.buildEvent(), lines 221-239; the caller (or the transport buffer)
\* keeps the event
ContextBuildEvent ==
    /\ Len(built) < MaxBuilds
    /\ built' = Append(built,
                       TraceContextBuildEvent(ctxOutput, Len(built), clock))
    /\ cleanSinceBuild' = TRUE
    /\ UNCHANGED <<ctxOutput, steps, metadata, stepsCopy, stepCalls, clock,
                   traceRest, vexVars, asyncVars, nonContextVars>>

\* a millisecond passes (performance.now(), new Date())
ClockTick ==
    /\ clock < MaxClock
    /\ clock' = clock + 1
    /\ UNCHANGED <<ctxOutput, steps, metadata, stepsCopy, built,
                   stepCalls, cleanSinceBuild, traceRest, vexVars,
                   asyncVars, nonContextVars>>

ContextNext ==
    \/ ContextRecord
    \/ ContextStep
    \/ ContextSetMetadata
    \/ ContextGetSteps
    \/ CopyPush
    \/ ContextBuildEvent
    \/ ClockTick

InitContext == Init /\ mode = "async"

SpecContext == InitContext /\ [][ContextNext]_vars

\* ================================================================ claims
InFlight == {f \in FlushSlots : flushes[f].pc # "idle"}
InFlightIds == UNION {Ids(flushes[f].batch) : f \in FlushSlots}
\* a step in which async-mode trace() built an event and handed it to enqueue
EnqueueStep == mode = "async" /\ nextId' = nextId + 1

\* C1: enqueue below capacity appends the event at the tail and leaves the
\* drop counter alone; enqueue at capacity leaves the buffer alone and adds
\* exactly 1 to the drop counter.
C1_EnqueueContract ==
    [][EnqueueStep =>
        IF Len(buffer) < MaxBufferSize
        THEN /\ buffer' = buffer \o <<BufferEntry(event')>>
             /\ droppedCount' = droppedCount
        ELSE /\ buffer' = buffer
             /\ droppedCount' = droppedCount + 1]_vars

\* C1 witness: a trace resolved whose event enqueue discarded at capacity
\* (no flush ever ran, so the event can have gone nowhere else).
C1_Witness ==
    /\ mode = "async" /\ tpc = "resolved"
    /\ Len(buffer) = MaxBufferSize
    /\ event.executionId \notin Ids(buffer)
    /\ droppedCount = 1
    /\ InFlight = {} /\ lastFlush = "none"

\* C2: when the third attempt of a flush fails retryably, as many events of
\* its batch as the remaining capacity allows are put back at the head of
\* the buffer in their original order, ahead of everything in the buffer;
\* and a flush puts events back only on that third failure.
C2_RequeueAtHead ==
    [][\A f \in FlushSlots :
        (/\ flushes[f].pc = "fetch"
         /\ flushes'[f].pc = "idle"
         /\ Ids(flushes[f].batch) \cap (delivered' \cup clientDropped') = {})
        =>
        LET batch == flushes[f].batch
            room == MaxBufferSize - Len(buffer)
            kept == IF Len(batch) <= room THEN Len(batch) ELSE room
        IN /\ flushes[f].attempt = 2
           /\ room >= 0
           /\ buffer' = [i \in 1..kept |-> batch[i]] \o buffer]_vars

\* C2 witness: a requeue happened with a newer event in the buffer: the
\* requeued event is at the head, the event enqueued during the flush is
\* behind it, and a third event of the batch did not fit.
C2_Witness ==
    /\ lastFlush = "requeued"
    /\ Len(buffer) = 2
    /\ buffer[1].executionId \in requeued
    /\ buffer[2].executionId \notin requeued
    /\ buffer[1].executionId < buffer[2].executionId
    /\ droppedCount > 0

\* C3 (as claimed): a requeued event is shipped before every event enqueued
\* after it: no later-enqueued event has been delivered while an earlier
\* event sits requeued and undelivered.
C3_RequeuedShippedFirst ==
    \A e1 \in requeued : \A e2 \in delivered : ~(e1 < e2)

\* C4 (as claimed): at most one flush() is between taking its snapshot and
\* finishing.
C4_FlushesSerialized == Cardinality(InFlight) <= 1

\* C5: a non-2xx answer below 500 ends the flush at once, with no further
\* attempt and no requeue, and the events of that batch never again appear
\* in the buffer or in the snapshot of any flush.
C5_ClientErrorDrops ==
    /\ [](\A e \in clientDropped :
            e \notin Ids(buffer) /\ e \notin InFlightIds)
    /\ [][\A f \in FlushSlots :
            (flushes[f].pc = "fetch" /\ clientDropped' # clientDropped
               /\ Ids(flushes[f].batch) \subseteq clientDropped')
            => (flushes'[f].pc = "idle" /\ buffer' = buffer
                  /\ droppedCount' = droppedCount)]_vars

\* C5 witness: a batch was answered with a client error, and afterwards a
\* flush found the buffer empty and sent nothing.
C5_Witness ==
    /\ clientDropped # {}
    /\ lastFlush = "noop"
    /\ buffer = <<>> /\ InFlight = {}

\* C6 (as claimed): verify makes a further attempt only after a transport or
\* timeout failure, at most 3 attempts in all, and a received non-2xx status
\* raises a VerificationError with no further attempt.
C6_RetryOnlyOnTransportFailure ==
    /\ attempt <= 2
    /\ (tpc = "vdelay" \/ attempt > 0)
         => lastError.name \in {"NetworkError", "AbortError"}

\* C7: in sync mode a 2xx response whose action is block makes trace() reject
\* with a VexBlockError carrying the full result built from that response.
C7_BlockRaises ==
    (verifyResult.kind = "return" /\ verifyResult.response.action = "block")
    =>
    LET r == verifyResult.response
        nullish(x) == x = Undefined \/ x = Null
    IN /\ tpc = "rejected"
       /\ traceError.name = "VexBlockError"
       /\ traceError.result =
            [output |-> IF nullish(r.output) THEN event.output ELSE r.output,
             confidence |-> IF nullish(r.confidence) THEN Null
                            ELSE r.confidence,
             action |-> "block",
             corrections |-> r.correctionAttempts,
             executionId |-> IF r.executionId = 0 THEN event.executionId
                             ELSE r.executionId,
             verification |-> IF nullish(r.checks) THEN Null ELSE r.checks,
             corrected |-> IF nullish(r.corrected) THEN "false"
                           ELSE r.corrected,
             originalOutput |-> r.originalOutput]

\* C7 witness: trace() rejected with a block error carrying the response's
\* confidence.
C7_Witness ==
    /\ mode = "sync" /\ tpc = "rejected"
    /\ traceError.name = "VexBlockError"
    /\ traceError.result.action = "block"
    /\ traceError.result.confidence = "0.1"

\* C8: fail-open. In sync mode, whenever verify fails (raises anything),
\* trace() resolves with the pass-through result; trace() rejects because of
\* the verification call only with the block error of a block verdict that
\* was actually received.
C8_FailOpen ==
    /\ (mode = "sync" /\ verifyResult.kind = "throw")
         => /\ tpc = "resolved"
            /\ result.action = "pass"
            /\ result.confidence = Null
            /\ result.output = event.output
            /\ result.executionId = event.executionId
            /\ result.corrected = "false"
    /\ (mode = "sync" /\ tpc = "rejected")
         => \/ traceError.name = "CallbackError"
            \/ /\ traceError.name = "VexBlockError"
               /\ verifyResult.kind = "return"
               /\ verifyResult.response.action = "block"

\* C8 witness: verify failed on transport failures after all its retries and
\* trace() still resolved with the recorded output.
C8_Witness ==
    /\ mode = "sync" /\ tpc = "resolved"
    /\ verifyResult.kind = "throw"
    /\ verifyResult.error \in {"NetworkError", "AbortError"}
    /\ attempt = 2
    /\ result.output = "world"

\* C9: in async mode the step that ends the callback hands the built event
\* to enqueue and resolves trace() at once, with no flush started, advanced
\* or awaited, with action pass, confidence null, corrected false, the
\* output last recorded and the executionId of the enqueued event.
C9_AsyncPassThrough ==
    [][EnqueueStep =>
        /\ tpc' = "resolved"
        /\ flushes' = flushes
        /\ event'.output = ctxOutput
        /\ Len(buffer) < MaxBufferSize
             => buffer'[Len(buffer')].executionId = event'.executionId
        /\ result'.action = "pass"
        /\ result'.confidence = Null
        /\ result'.corrected = "false"
        /\ result'.output = ctxOutput
        /\ result'.executionId = event'.executionId]_vars

\* C9 witness: an async trace resolved with its recorded output while its
\* event is still in the buffer and another batch is still awaiting its
\* HTTP answer.
C9_Witness ==
    /\ mode = "async" /\ tpc = "resolved"
    /\ result.output = "world"
    /\ event.executionId \in Ids(buffer)
    /\ \E f \in FlushSlots : flushes[f].pc = "fetch"

\* C10: in async mode no delivery failure reaches the caller: whatever
\* the endpoint answers and however a request fails or times out, the step
\* that continues the flush makes no flush() promise reject; and trace()
\* never rejects because of the endpoint and resolves with the
\* pass-through result.
C10_AsyncFailuresInternal ==
    /\ [][(\E f \in FlushSlots :
              flushes[f].pc # "idle" /\ flushes'[f] # flushes[f])
            => flushRejected' = flushRejected]_vars
    /\ []((mode = "async" /\ tpc = "rejected")
            => traceError.name = "CallbackError")
    /\ []((mode = "async" /\ tpc = "resolved")
            => /\ result.action = "pass"
               /\ result.confidence = Null
               /\ result.output = event.output)

\* C10 witness: a flush ran out of retries and ended by requeueing, and the
\* caller's trace resolved.
C10_Witness ==
    /\ mode = "async" /\ tpc = "resolved"
    /\ lastFlush = "requeued"
    /\ result.action = "pass"

\* the length of opts.apiKey between its first and last non-blank character
KeySpan ==
    LET solid == {i \in 1..Len(apiKey.text) : apiKey.text[i] # " "} IN
    IF ~apiKey.present \/ solid = {} THEN 0
    ELSE 1 + Cardinality({i \in 1..Len(apiKey.text) :
                 \E a, b \in solid : a < i /\ i <= b})

\* C16: a constructor call whose API key is empty after trimming, or
\* shorter than 10 characters after trimming, ends with a
\* ConfigurationError, and then no transport exists and no flush timer
\* is armed.
C16_BadKeyRejected ==
    (ctor # "pending" /\ KeySpan < 10) =>
        /\ ctor = "ConfigurationError"
        /\ transports = {}
        /\ ~flushTimer
\* a padded key of 9 characters (11 with its blanks) was rejected
C16_Witness ==
    /\ ctor = "ConfigurationError" /\ KeySpan = 9 /\ Len(apiKey.text) = 11
    /\ ValidThresholds(MergeThreshold(thresholdInput))

\* the threshold set that resolveConfig must check: each key of the input
\* that is present replaces the default
MergedField(f) ==
    IF thresholdInput[f].set THEN thresholdInput[f].val
    ELSE DefaultThreshold[f]
MergedStrict ==
    /\ MergedField("block").num /\ MergedField("flag").num
    /\ MergedField("pass").num
    /\ MergedField("block").v < MergedField("flag").v
    /\ MergedField("flag").v < MergedField("pass").v

\* C17: resolveConfig accepts exactly the inputs whose merge over the
\* defaults satisfies block < flag < pass strictly and raises a
\* ConfigurationError for every other; an accepted configuration carries
\* the merged values unchanged, so it satisfies block < flag < pass. The
\* same holds for the configuration of a constructed Vex.
C17_ThresholdsValidated ==
    /\ resolved.status # "pending" =>
          /\ resolved.status = (IF MergedStrict THEN "ok"
                                ELSE "ConfigurationError")
          /\ resolved.status = "ok" =>
                \A f \in {"pass", "flag", "block"} :
                    resolved.threshold[f] = MergedField(f)
    /\ (ctor # "pending" /\ ~MergedStrict) => ctor = "ConfigurationError"
    /\ ctor = "ok" =>
          /\ \A f \in {"pass", "flag", "block"} :
                threshold[f] = MergedField(f)
          /\ threshold.block.v < threshold.flag.v
          /\ threshold.flag.v < threshold.pass.v
\* a partial input {pass: 0.5} met the default flag 0.5 and was rejected
C17_Witness ==
    /\ resolved.status = "ConfigurationError"
    /\ thresholdInput.pass = [set |-> TRUE, val |-> Num(50)]
    /\ ~thresholdInput.flag.set /\ ~thresholdInput.block.set

\* the keys of a value, at every depth
RECURSIVE KeysOf(_)
KeysOf(val) ==
    IF val.t = "leaf" THEN {}
    ELSE UNION {(IF val.t = "obj" THEN {val.items[i].k} ELSE {})
                  \cup KeysOf(val.items[i].v) : i \in 1..Len(val.items)}
IsCamelKey(k) == \A i \in 1..Len(k) : k[i] # "_"
IsSnakeKey(k) == \A i \in 1..Len(k) : k[i] \notin Uppers
\* the same keys with the same values, whatever the order of the entries
RECURSIVE SameValue(_, _)
SameValue(x, y) ==
    /\ x.t = y.t /\ x.p = y.p /\ Len(x.items) = Len(y.items)
    /\ IF x.t = "arr"
       THEN \A i \in 1..Len(x.items) :
                SameValue(x.items[i].v, y.items[i].v)
       ELSE \A i \in 1..Len(x.items) : \E j \in 1..Len(y.items) :
                /\ x.items[i].k = y.items[j].k
                /\ SameValue(x.items[i].v, y.items[j].v)

\* C20: for a mapping whose keys (nested ones included) are camelCase,
\* toCamelCase(toSnakeCase(m)) has the keys and values of m; for a mapping
\* whose keys are snake_case, toSnakeCase(toCamelCase(m)) equals m.
C20_CasingRoundTrip ==
    casePc = "done" =>
        /\ (caseDir = "snakeFirst"
              /\ \A k \in KeysOf(caseInput) : IsCamelKey(k))
             => SameValue(caseBack, caseInput)
        /\ (caseDir = "camelFirst"
              /\ \A k \in KeysOf(caseInput) : IsSnakeKey(k))
             => caseBack = caseInput
\* {aB1: [x, {aB: x}]} went to the wire as {a_b1: [x, {a_b: x}]} and back
C20_Witness ==
    /\ casePc = "done" /\ caseDir = "snakeFirst"
    /\ caseInput = Obj(<<Entry(<<"a", "B", "1">>,
           Arr(<<Entry(<<>>, Leaf("x")),
                 Entry(<<>>, Obj(<<Entry(<<"a", "B">>, Leaf("x"))>>))>>))>>)
    /\ caseWire = Obj(<<Entry(<<"a", "_", "b", "1">>,
           Arr(<<Entry(<<>>, Leaf("x")),
                 Entry(<<>>, Obj(<<Entry(<<"a", "_", "b">>,
                                         Leaf("x"))>>))>>))>>)
    /\ caseBack = caseInput

\* a step that is a Vex.close() call
CloseCall == closeCalls' = closeCalls + 1
\* a step that is a flush() call: direct, from the timer, or from close()
FlushCall == ManualFlush \/ TimerTick \/ (CloseCall /\ ~closed)

\* no Session.trace call is in flight, none overlapped another, none rejected
AllSequentialNormal ==
    /\ ~overlapped /\ ~failed

\* C11: on a new session, after N sequential trace calls that all completed
\* normally, session.sequence is N; the counter starts at 0 and moves only
\* by +1.
C11_SequenceCountsTraces ==
    /\ []((AllSequentialNormal /\ \A c \in CallSlots : calls[c].pc = "idle")
            => seq = started)
    /\ [][seq' # seq => seq' = seq + 1]_vars
\* three sequential traces completed normally
C11_Witness ==
    /\ AllSequentialNormal /\ \A c \in CallSlots : calls[c].pc = "idle"
    /\ started = 3 /\ seq = 3

\* C12: for every window size W >= 0, the (K+1)-th sequential trace hands
\* its context a snapshot of exactly min(K, W) turns, oldest first, with
\* sequence numbers max(0, K-W), ..., K-1.
C12_WindowSnapshot ==
    \A c \in CallSlots :
        (calls[c].pc # "idle" /\ AllSequentialNormal) =>
            LET K == started - 1
                n == Min(K, windowSize)
                snap == calls[c].snapshot IN
            /\ Len(snap) = n
            /\ \A i \in 1..n :
                  snap[i].sequenceNumber = Max(0, K - windowSize) + i - 1

\* C13: the sequence numbers stamped on the events handed to the
\* orchestrator are pairwise different and are exactly 0 .. n-1, for any
\* interleaving and any outcome of the calls.
C13_SequenceNumbersUnique ==
    /\ \A i, j \in 1..Len(stamped) : i # j => stamped[i] # stamped[j]
    /\ {stamped[i] : i \in 1..Len(stamped)} = 0..(Len(stamped) - 1)

\* C14: close() is idempotent and stops the periodic timer: once closed the
\* interval is cleared and its callback never runs again; the first close()
\* sets the flag, clears the timer and performs one final flush (one flush
\* that takes the whole buffer, or none when the buffer is empty; a final
\* flush that fails to convert its batch has left again); every later
\* close() call starts no request and changes no state.
C14_CloseIdempotent ==
    /\ [](closed => ~flushTimer /\ ~tickedClosed)
    /\ [][(CloseCall /\ ~closed) =>
            /\ closed' /\ ~flushTimer'
            /\ droppedCount' = droppedCount
            /\ IF Len(buffer) = 0
               THEN flushes' = flushes /\ buffer' = buffer
               ELSE /\ buffer' = <<>>
                    /\ \/ ConvertThrows(buffer) /\ flushes' = flushes
                       \/ \E f \in FlushSlots :
                            /\ flushes[f].pc = "idle"
                            /\ flushes'[f].pc # "idle"
                            /\ flushes' = [flushes EXCEPT ![f] =
                                  [pc |-> flushes'[f].pc, batch |-> buffer,
                                   attempt |-> 0]]]_vars
    /\ [][(CloseCall /\ closed) =>
            UNCHANGED <<mode, closed, flushTimer, tickedClosed, asyncVars,
                        traceVars>>]_vars
\* closed twice, the final flush of the first call delivered its batch
C14_Witness ==
    /\ closed /\ closeCalls = 2 /\ ~flushTimer
    /\ lastFlush = "delivered" /\ Len(buffer) = 0 /\ InFlight = {}

\* C15: a flush() call that finds the buffer empty starts no request and
\* changes neither the buffer nor the drop counter (so a second flush right
\* after a delivered one starts no request).
C15_EmptyFlushNoop ==
    [][(Len(buffer) = 0 /\ FlushCall) =>
         /\ flushes' = flushes
         /\ buffer' = buffer
         /\ droppedCount' = droppedCount]_vars
\* a flush delivered its batch and the flush called after it was a no-op
C15_Witness ==
    /\ lastFlush = "noop" /\ delivered # {}
    /\ Len(buffer) = 0 /\ InFlight = {}

\* C18: in sync mode a received flag verdict makes trace() resolve with
\* action = flag after one "flagged" warning, and a received pass verdict
\* makes trace() resolve with action = pass and no warning.
C18_FlagWarnsPassSilent ==
    (mode = "sync" /\ verifyResult.kind = "return") =>
        /\ verifyResult.response.action = "flag" =>
              /\ tpc = "resolved" /\ result.action = "flag"
              /\ warning = "flagged"
        /\ verifyResult.response.action = "pass" =>
              /\ tpc = "resolved" /\ result.action = "pass"
              /\ warning = "none"
\* a flag verdict was received and the warning was logged
C18_Witness ==
    /\ mode = "sync" /\ verifyResult.kind = "return"
    /\ verifyResult.response.action = "flag"
    /\ tpc = "resolved" /\ warning = "flagged"

\* C19: every VexResult that trace() resolves with, or that a block error
\* carries, has action in {pass, flag, block}, whatever the 2xx body was.
C19_ActionInEnum ==
    /\ tpc = "resolved" => result.action \in {"pass", "flag", "block"}
    /\ traceError.name = "VexBlockError" =>
          traceError.result.action \in {"pass", "flag", "block"}

\* the events of a list are in the order in which enqueue accepted them
\* (executionIds are handed out in enqueue order)
InEnqueueOrder(list) ==
    \A i, j \in 1..Len(list) :
        i < j => list[i].executionId < list[j].executionId

\* C21: the buffer, and the batch of every flush in flight, list their
\* events in enqueue order in every reachable state, also after failed
\* flush cycles (back-to-back or overlapping) interleaved with enqueues.
C21_FifoByOrigin ==
    /\ InEnqueueOrder(buffer)
    /\ \A f \in FlushSlots : InEnqueueOrder(flushes[f].batch)

\* C22: an enqueue during a flush in flight leaves the batches alone and
\* appends to the buffer; whatever a flush in flight does next (delivery,
\* client error, back-off or requeue), no event leaves the buffer; and a
\* flush that starts takes the whole buffer as its snapshot.
C22_EnqueueDuringFlush ==
    /\ [][(EnqueueStep /\ InFlight # {}) =>
            /\ flushes' = flushes
            /\ Len(buffer) < MaxBufferSize =>
                  buffer' = Append(buffer, BufferEntry(event'))]_vars
    /\ [][(\E f \in FlushSlots :
              flushes[f].pc # "idle" /\ flushes'[f] # flushes[f])
            => Ids(buffer) \subseteq Ids(buffer')]_vars
    /\ [][\A f \in FlushSlots :
            (flushes[f].pc = "idle" /\ flushes'[f].pc # "idle") =>
                flushes'[f].batch = buffer /\ buffer' = <<>>]_vars
\* a flush is in flight and the buffer holds an event enqueued after that
\* flush took its snapshot
C22_Witness ==
    \E f \in InFlight :
        /\ Len(buffer) = 1
        /\ \A e \in Ids(flushes[f].batch) : e < buffer[1].executionId

\* C23: no event is in the snapshots of two flushes in flight, and an
\* event whose batch was answered with 2xx or with a non-2xx status below
\* 500 is in no snapshot in flight and not in the buffer, so no later
\* request carries it.
C23_NoDoubleSend ==
    /\ \A f, g \in FlushSlots :
          f # g => Ids(flushes[f].batch) \cap Ids(flushes[g].batch) = {}
    /\ (delivered \cup clientDropped) \cap (InFlightIds \cup Ids(buffer)) = {}
\* two flushes in flight with different events, after an earlier delivery
C23_Witness ==
    /\ Cardinality(InFlight) = 2
    /\ delivered # {}

\* C24 (as claimed): a flush() call that finds events in the buffer issues
\* a request; a flush makes at most 3 attempts; it ends at the first
\* answer that is 2xx or below 500, requeueing nothing; it goes on to a
\* further attempt only from an attempt that was not answered so, and one
\* attempt at a time.
C24_OneToThreeRequests ==
    /\ [][(FlushCall /\ Len(buffer) > 0) =>
            \E f \in FlushSlots :
                flushes[f].pc = "idle" /\ flushes'[f].pc = "fetch"]_vars
    /\ [](\A f \in FlushSlots : flushes[f].attempt <= 2)
    /\ [][\A f \in FlushSlots :
            /\ (flushes[f].pc = "fetch"
                  /\ Ids(flushes[f].batch) \subseteq
                       (delivered' \cup clientDropped'))
                 => (flushes'[f] = NoFlush /\ buffer' = buffer)
            /\ (flushes[f].pc = "fetch" /\ flushes'[f].pc = "delay")
                 => Ids(flushes[f].batch) \cap
                       (delivered' \cup clientDropped') = {}
            /\ flushes'[f].attempt > flushes[f].attempt
                 => /\ flushes[f].pc = "delay"
                    /\ flushes'[f].attempt = flushes[f].attempt + 1]_vars
\* C25: a requeue keeps the first events of the batch up to the remaining
\* capacity, discards the rest and adds exactly the number discarded to
\* the drop counter (nothing when the whole batch fits).
C25_RequeueTruncation ==
    [][\A f \in FlushSlots :
        (/\ flushes[f].pc # "idle" /\ flushes'[f].pc = "idle"
         /\ Ids(flushes[f].batch) \cap (delivered' \cup clientDropped') = {})
        =>
        LET batch == flushes[f].batch
            room == Max(0, MaxBufferSize - Len(buffer))
            kept == Min(room, Len(batch))
        IN /\ Ids(buffer') \ Ids(buffer) =
                {batch[i].executionId : i \in 1..kept}
           /\ droppedCount' = droppedCount + (Len(batch) - kept)]_vars
\* a requeue filled the buffer and discarded an event of its batch: an
\* event older than the newest buffered one is nowhere, and was counted
C25_Witness ==
    /\ lastFlush = "requeued" /\ InFlight = {}
    /\ Len(buffer) = MaxBufferSize /\ droppedCount = 1
    /\ buffer[1].executionId \in requeued
    /\ \E e \in 1..nextId :
          /\ e \notin Ids(buffer) \cup delivered \cup clientDropped
          /\ e < buffer[Len(buffer)].executionId

\* C28: when verify's third attempt fails with a transport or timeout
\* failure, verify raises that attempt's failure: not a VerificationError
\* and not the failure of an earlier attempt.
C28_LastFailureRaised ==
    (/\ tpc \notin {"verify", "vjson", "vtext", "vdelay"}
     /\ attempt = syncMaxRetries - 1
     /\ attemptFailure \in {"NetworkError", "AbortError"})
    =>
    /\ verifyResult.kind = "throw"
    /\ verifyResult.error = attemptFailure
    /\ verifyResult.error # "VerificationError"
    /\ lastError = [name |-> attemptFailure, attempt |-> attempt]
\* three attempts failed, the third on a timeout, and trace() has settled
C28_Witness ==
    /\ mode = "sync" /\ tpc \in {"resolved", "rejected"}
    /\ attempt = 2 /\ attemptFailure = "AbortError"
    /\ verifyResult.kind = "throw"

\* C26: enqueue warns for the first event it drops and after that for every
\* 100th event it drops, and for no other; entry i of enqueueWarned is the
\* i-th event dropped by enqueue.
C26_WarnFirstAndEvery100th ==
    \A i \in 1..Len(enqueueWarned) :
        enqueueWarned[i] = (i % WarnEvery = 1)

\* the call names a correction mode other than 'none'
CorrectionRequested ==
    /\ verifyOpts.given
    /\ verifyOpts.correction \in CorrectionModes \ {"none"}

\* C29: every attempt of a verify call is bounded by the correction
\* timeout when a correction mode other than 'none' is supplied and by
\* the base timeout otherwise, and a transport built by the orchestrator
\* has a correction timeout of 3 times its base timeout.
C29_TimeoutSelection ==
    /\ \A i \in 1..Len(timers) :
          timers[i] = IF CorrectionRequested THEN correctionTimeoutMs
                                            ELSE timeoutMs
    /\ syncInput.via = "vex" =>
          /\ timeoutMs = syncInput.configTimeoutMs
          /\ correctionTimeoutMs = 3 * timeoutMs
\* a transport built by the orchestrator made three attempts of a call
\* with correction 'auto', each bounded by 3 times the base timeout
C29_Witness ==
    /\ syncInput.via = "vex" /\ verifyOpts.correction = "auto"
    /\ Len(timers) = 3
    /\ timers[3] = 3 * DefaultConfigTimeoutMs

\* C30: in the body sent, metadata.thresholds is the {pass_threshold,
\* flag_threshold} pair exactly when thresholds are supplied;
\* metadata.correction and metadata.transparency are written (transparency
\* 'opaque' by default) exactly when a correction mode other than 'none'
\* is supplied; what verify does not write is as the event had it.
C30_MetadataMerge ==
    vpc # "idle" =>
      LET had == IF eventMetadata.kind = "object"
                 THEN eventMetadata.entries ELSE EmptyMetadata
          supplied == verifyOpts.given /\ verifyOpts.thresholds.set
          body == bodyMetadata
      IN /\ (body["thresholds"].t = "pair") <=> supplied
         /\ supplied =>
               /\ body["thresholds"].pass = verifyOpts.thresholds.pass
               /\ body["thresholds"].flag = verifyOpts.thresholds.flag
         /\ ~supplied => body["thresholds"] = had["thresholds"]
         /\ CorrectionRequested =>
               /\ body["correction"] = Text(verifyOpts.correction)
               /\ body["transparency"] =
                     IF verifyOpts.transparency = Undefined
                     THEN Text("opaque")
                     ELSE Text(verifyOpts.transparency)
         /\ ~CorrectionRequested =>
               /\ body["correction"] = had["correction"]
               /\ body["transparency"] = had["transparency"]
         /\ body["model"] = had["model"]
\* a call with thresholds and correction 'auto' without a transparency:
\* the body carries the pair, the mode and 'opaque'
C30_Witness ==
    /\ vpc = "settled"
    /\ verifyOpts.thresholds.set /\ verifyOpts.correction = "auto"
    /\ verifyOpts.transparency = Undefined
    /\ bodyMetadata["thresholds"].t = "pair"
    /\ bodyMetadata["correction"] = Text("auto")
    /\ bodyMetadata["transparency"] = Text("opaque")

\* C27 (as claimed): with the orchestrator not closed, the timer ticking and the
\* endpoint answering every request with 2xx from some point on, every
\* event held in the buffer (requeued after a failed batch, or newly
\* enqueued) is eventually delivered.
C27_EventualDelivery ==
    \A e \in 1..MaxEvents :
        (healthy /\ ~closed /\ e \in Ids(buffer)) ~> (e \in delivered)
\* C35: in every reachable state, whatever the interleaving of enqueue,
\* overlapping flushes and requeues, the buffer holds at most maxBufferSize
\* events.
C35_BufferBounded == Len(buffer) <= MaxBufferSize

\* C35 witness: a requeue has refilled the buffer to capacity while an
\* overlapping flush, started during the failed one, is still in flight.
C35_Witness ==
    /\ Len(buffer) = MaxBufferSize
    /\ lastFlush = "requeued"
    /\ Ids(buffer) \cap requeued # {}
    /\ InFlight # {}

\* ids of the events that enqueue accepted: every id handed out so far
\* except those enqueue rejected at capacity (enqueueWarned has one entry
\* per rejected event)
AcceptedCount == nextId - Len(enqueueWarned)
\* events discarded by the truncation of a requeue
TruncatedCount == droppedCount - Len(enqueueWarned)

\* C36 (as claimed): every event accepted by enqueue is in exactly one place: the
\* buffer, the snapshot of one flush in flight, delivered (2xx), dropped by
\* a non-2xx response below 500, or dropped by the truncation of a requeue;
\* none vanishes unaccounted and none is twice in the buffer.
C36_EventAccounting ==
    mode = "async" =>
    /\ Cardinality(Ids(buffer)) = Len(buffer)
    /\ \A f \in FlushSlots :
          /\ Cardinality(Ids(flushes[f].batch)) = Len(flushes[f].batch)
          /\ Ids(flushes[f].batch)
                \cap (Ids(buffer) \cup delivered \cup clientDropped) = {}
          /\ \A g \in FlushSlots \ {f} :
                Ids(flushes[f].batch) \cap Ids(flushes[g].batch) = {}
    /\ Ids(buffer) \cap (delivered \cup clientDropped) = {}
    /\ delivered \cap clientDropped = {}
    /\ TruncatedCount >= 0
    /\ Len(buffer) + Cardinality(InFlightIds) + Cardinality(delivered)
         + Cardinality(clientDropped) + TruncatedCount = AcceptedCount

\* C39: in sync mode no event is ever put on the async buffer, whatever the
\* verdict or failure of the verification, so the buffer stays empty and
\* neither the periodic flush nor close() issues a batch request.
C39_SyncNeverBuffers ==
    mode = "sync" =>
    /\ buffer = <<>> /\ droppedCount = 0
    /\ InFlight = {}
    /\ lastFlush \in {"none", "noop"}
    /\ delivered = {} /\ clientDropped = {} /\ requeued = {}

\* C39 witness: sync mode, a blocked trace and a failed-open trace are
\* behind us, the timer ticked and close() ran its final flush.
C39_Witness ==
    /\ mode = "sync" /\ closed /\ lastFlush = "noop"
    /\ nextId >= 2 /\ tpc = "rejected"
    /\ traceError.name = "VexBlockError"

\* C40: in sync mode, for a 2xx response, every VexResult field whose
\* response field is absent or null takes its default: action pass,
\* confidence null, output the event's recorded output, executionId the
\* event's, corrected false, corrections, verification and originalOutput
\* null; so the body {} yields a pass result that trace() resolves with.
C40_ResultDefaults ==
    (mode = "sync" /\ verifyResult.kind = "return") =>
    LET r == verifyResult.response
        res == IF tpc = "rejected" THEN traceError.result ELSE result
        absent(x) == x \in {Undefined, Null}
    IN /\ absent(r.action) => res.action = "pass"
       /\ absent(r.confidence) => res.confidence = Null
       /\ absent(r.output) => res.output = event.output
       /\ r.executionId = 0 => res.executionId = event.executionId
       /\ absent(r.corrected) => res.corrected = "false"
       /\ absent(r.correctionAttempts) => res.corrections = Null
       /\ absent(r.checks) => res.verification = Null
       /\ absent(r.originalOutput) => res.originalOutput = Null
       /\ r = VerifyToCamelCase(EmptyBody) =>
             /\ tpc = "resolved"
             /\ result = passThroughResult(event)

\* C40 witness: verify returned the body {} and trace() resolved with a
\* pass result carrying the recorded output and the event's id.
C40_Witness ==
    /\ mode = "sync" /\ verifyResult.kind = "return"
    /\ verifyResult.response = VerifyToCamelCase(EmptyBody)
    /\ tpc = "resolved" /\ result.action = "pass"
    /\ result.output = event.output /\ event.output # Undefined
    /\ result.executionId = event.executionId

\* C31 (as claimed): an event returned by buildEvent() is independent of its
\* Trace Context: whatever step(), setMetadata() and record() calls follow,
\* no step changes what a holder of an event already built (the caller, or
\* the transport buffer) reads in its steps, metadata and output.
C31_BuiltEventIndependent ==
    [][\A i \in 1..Len(built) :
         /\ ArrayAt(built'[i].steps, steps') = ArrayAt(built[i].steps, steps)
         /\ ObjectAt(built'[i].metadata, metadata') =
               ObjectAt(built[i].metadata, metadata)
         /\ built'[i].output = built[i].output]_vars

\* C32 (as claimed): buildEvent() is idempotent: a buildEvent() call that
\* follows another with no mutator call between them returns an event equal
\* to the earlier one in every field except latencyMs, executionId
\* included.
C32_BuildEventIdempotent ==
    [][(cleanSinceBuild /\ Len(built') = Len(built) + 1) =>
         LET a == built[Len(built)]
             b == built'[Len(built')]
         IN /\ b.executionId = a.executionId
            /\ b.timestamp = a.timestamp
            /\ b.output = a.output
            /\ b.steps = a.steps
            /\ b.metadata = a.metadata]_vars

\* C33 (as claimed): the steps of a built event are exactly the records of
\* the step() calls made on the context before its buildEvent(), one per
\* call, in call order, each named '<type>:<name>': the event has them when
\* buildEvent() returns and no later call changes what the event shows;
\* and the array getSteps() returns holds the same records but is a copy:
\* changing it leaves the context's steps alone.
C33_StepsInCallOrder ==
    [][/\ Len(built') = Len(built) + 1 =>
            ArrayAt(built'[Len(built')].steps, steps') =
               [i \in 1..Len(stepCalls) |->
                   [stepName |->
                       stepCalls[i].type \o ":" \o stepCalls[i].name]]
       /\ \A e \in 1..Len(built) :
             ArrayAt(built'[e].steps, steps') = ArrayAt(built[e].steps, steps)
       /\ stepsCopy' # stepsCopy => steps' = steps
       /\ (stepsCopy'.taken /\ ~stepsCopy.taken) => stepsCopy'.v = steps]_vars

\* C34 (as claimed): for every window size W >= 0, when no Session.trace is
\* pending the history holds at most W turns, oldest first by sequence
\* number.
C34_HistoryWithinWindow ==
    (\A c \in CallSlots : calls[c].pc = "idle") =>
        /\ Len(history) <= windowSize
        /\ \A i, j \in 1..Len(history) :
              i < j =>
                history[i].sequenceNumber < history[j].sequenceNumber

\* a step that ends Session.trace call c
CallEnds(c) == calls[c].pc # "idle" /\ calls'[c].pc = "idle"

\* C37: a Session.trace call that does not complete normally (its callback
\* throws, or in sync mode the verdict is block and the block error is
\* raised) leaves the sequence counter and the history of the session
\* exactly as they were.
C37_FailedTraceLeavesSession ==
    [][(\/ ended'.how = "callback-threw"
        \/ (mode = "sync" /\ ended'.how = "returned" /\ ended'.block))
       => (seq' = seq /\ history' = history)]_vars

\* C37 witness: after one completed turn a second call was answered with
\* block; the session still counts one turn and holds one.
C37_Witness ==
    /\ mode = "sync" /\ ended.how = "returned" /\ ended.block
    /\ started = 2 /\ seq = 1 /\ Len(history) = 1
    /\ \A c \in CallSlots : calls[c].pc = "idle"

\* C38: the turn appended by a completed Session.trace carries the output
\* the callback recorded on the Trace Context, not the output of the
\* VexResult; so the history, and the snapshot every later call receives,
\* never hold an output the server substituted.
C38_TurnKeepsRecordedOutput ==
    [][/\ \A c \in CallSlots :
            (CallEnds(c) /\ seq' = seq + 1) =>
                /\ history' # <<>>
                /\ history'[Len(history')].output = calls[c].output
                /\ history'[Len(history')].sequenceNumber =
                      calls[c].currentSeq
       /\ \A c \in CallSlots : \A i \in 1..Len(calls'[c].snapshot) :
            calls'[c].snapshot[i].output \in Outputs \cup {Undefined}]_vars

\* C38 witness: the server answered a call with a substituted output; the
\* call completed and the turn it appended holds the recorded output.
C38_Witness ==
    /\ mode = "sync" /\ ended.how = "returned" /\ ended.output = "fixed"
    /\ ~ended.block
    /\ history # <<>> /\ history[Len(history)].output \in Outputs

====
